---- MODULE Spec2Model ----
(***************************************************************************)
(* Model of the feed analyzer's request handler (POST /api/analyze) and    *)
(* of its structural validator validateFeedXML.                            *)
(*                                                                         *)
(* A document text is a sequence of lexemes: one lexeme per markup tag the *)
(* handler's regular expressions and substring tests can tell apart, plus  *)
(* "text" (character data) and "ws" (white space).  Closing tags that no   *)
(* expression of the handler looks at are left out of the texts.           *)
(***************************************************************************)
EXTENDS Integers, Sequences, FiniteSets, TLC

VARIABLES
    pc,          \* position of the request inside POST
    body,        \* the request body
    remote,      \* what the feed URL serves at this moment (environment)
    changes,     \* how often the served document has changed so far
    timer,       \* the 20 s abort timer: "unset", "armed", "cleared", "fired"
    xmlContent,  \* the raw text POST fetched
    fault,       \* where an internal exception strikes validateFeedXML
    validation,  \* the result of validateFeedXML
    parsed,      \* what parser.parseURL resolves with, and from which text
    feed,        \* the ParsedFeed the analysis reads
    calls,       \* how often fetch, validateFeedXML, parseURL, analysis ran
    caught,      \* the error the outer catch received, and where it was thrown
    response,    \* the response POST returned
    earlier,     \* what an earlier request for the same URL read and answered
    peer,        \* the variables of a second invocation of POST, suspended
    page         \* the state of the page whose form sends the request

vars == <<pc, body, remote, changes, timer, xmlContent, fault, validation,
          parsed, feed, calls, caught, response, earlier, peer, page>>

None == "none"

----------------------------------------------------------------------------
(* Bounds of the model.                                                    *)

\* longest channel / feed content, in elements, of a generated document
MaxContent == 3
\* most items of a generated ParsedFeed
MaxItems == 2
\* how often the served document may change during one request
MaxChanges == 1

----------------------------------------------------------------------------
(* Document texts.                                                         *)

\* the text of one element of a generated document, as lexemes
Chunk(c) ==
    CASE c = "xml"      -> <<"<?xml>">>
      [] c = "ws"       -> <<"ws">>
      [] c = "html"     -> <<"<html>">>
      [] c = "rss_v"    -> <<"<rss version>">>
      [] c = "rss_92"   -> <<"<rss version=0.92>">>
      [] c = "rss_nv"   -> <<"<rss>">>
      [] c = "rss_uq"   -> <<"<rss version=2.0 unquoted>">>
      [] c = "feed_a"   -> <<"<feed xmlns=Atom>">>
      [] c = "feed_p"   -> <<"<feed>">>
      [] c = "channel"  -> <<"<channel>">>
      [] c = "channel_c"-> <<"</channel>">>
      [] c = "title"    -> <<"<title>", "text", "</title>">>
      [] c = "title_e"  -> <<"<title>", "</title>">>
      [] c = "link"     -> <<"<link>", "text">>
      [] c = "id"       -> <<"<id>", "text">>
      [] c = "updated"  -> <<"<updated>", "text">>
      [] c = "item_t"   -> <<"<item>", "<title>", "text", "</title>", "</item>">>
      [] c = "item_d"   -> <<"<item>", "<description>", "text", "</item>">>
      [] c = "item_n"   -> <<"<item>", "<guid>", "text", "</item>">>
      [] c = "item_te"  -> <<"<item>", "<title>", "</title>",
                             "<description>", "text", "</item>">>
      [] c = "entry_t"  -> <<"<entry>", "<title>", "text", "</title>",
                             "<id>", "text", "<updated>", "text", "</entry>">>
      [] c = "entry_n"  -> <<"<entry>", "</entry>">>
      [] c = "mc"       -> <<"<media:content>">>
      [] c = "mc_fs"    -> <<"<media:content filesize>">>
      [] c = "mt"       -> <<"<media:thumbnail>">>
      [] c = "mt_1"     -> <<"<media:thumbnail url=t1>">>
      [] c = "mt_2"     -> <<"<media:thumbnail url=t2>">>
      [] c = "rdf"      -> <<"<rdf:RDF>">>

RECURSIVE Flatten(_)
Flatten(cs) == IF cs = <<>> THEN <<>> ELSE Chunk(Head(cs)) \o Flatten(Tail(cs))

SeqsUpTo(S, n) == UNION {[1..k -> S] : k \in 0..n}

\* what may stand before the channel of an RSS-family text
RssPrologs == {<<"rss_v">>, <<"rss_nv">>, <<"xml">>, <<"ws", "rss_v">>, <<"html">>}
RssContent == {"title", "title_e", "link", "item_t", "item_d", "item_n",
               "item_te", "mc_fs"}
\* what may stand before the content of an Atom-family text
AtomPrologs == {<<"feed_a">>, <<"xml", "feed_a">>, <<"feed_p">>, <<"html", "feed_a">>}
AtomContent == {"title", "id", "updated", "entry_t", "entry_n", "mc_fs", "channel"}

\* the RSS-family texts: prolog, <channel> or not, content, </channel> or not
RssDocs ==
    { Flatten(p \o o \o c \o e) :
        p \in RssPrologs, o \in {<<>>, <<"channel">>},
        c \in SeqsUpTo(RssContent, MaxContent), e \in {<<>>, <<"channel_c">>} }
\* the Atom-family texts: prolog and content
AtomDocs ==
    { Flatten(p \o c) : p \in AtomPrologs, c \in SeqsUpTo(AtomContent, MaxContent) }

Docs == RssDocs \cup AtomDocs

----------------------------------------------------------------------------
(* String and regular-expression primitives over lexeme sequences.         *)

\* lexemes matched by /<rss[^>]*>/i, /<channel[^>]*>/i, ...
RssTags          == {"<rss version>", "<rss version=0.92>", "<rss>",
                     "<rss version=2.0 unquoted>"}
ChannelTags      == {"<channel>"}
ChannelCloseTags == {"</channel>"}
TitleTags        == {"<title>"}
TitleCloseTags   == {"</title>"}
LinkTags         == {"<link>"}
ItemTags         == {"<item>"}
ItemCloseTags    == {"</item>"}
DescriptionTags  == {"<description>"}
IdTags           == {"<id>"}
UpdatedTags      == {"<updated>"}
EntryTags        == {"<entry>"}
MediaContentTags == {"<media:content>", "<media:content filesize>"}
MediaThumbnailTags ==
    {"<media:thumbnail>", "<media:thumbnail url=t1>", "<media:thumbnail url=t2>"}

\* the literal substrings the handler tests with includes / startsWith
Literal(lit) ==
    CASE lit = "<?xml"     -> {"<?xml>"}
      [] lit = "<rss"      -> {"<rss version>", "<rss version=0.92>", "<rss>",
                               "<rss version=2.0 unquoted>"}
      [] lit = "<feed"     -> {"<feed xmlns=Atom>", "<feed>"}
      [] lit = "<channel>" -> {"<channel>"}
      [] lit = "<channel " -> {}
      [] lit = "version="  -> {"<rss version>", "<rss version=0.92>", "<?xml>",
                               "<rss version=2.0 unquoted>"}
      [] lit = "filesize=" -> {"<media:content filesize>"}
      [] lit = "xmlns=Atom"-> {"<feed xmlns=Atom>"}
      [] lit = "<rdf:RDF"  -> {"<rdf:RDF>"}

\* s.includes(lit)
Includes(s, lit) == \E i \in 1..Len(s) : s[i] \in Literal(lit)

\* s.startsWith(lit)
StartsWith(s, lit) == s # <<>> /\ s[1] \in Literal(lit)

\* s.trim()
RECURSIVE Trim(_)
Trim(s) ==
    IF s = <<>> THEN s
    ELSE IF s[1] = "ws" THEN Trim(Tail(s))
    ELSE IF s[Len(s)] = "ws" THEN Trim(SubSeq(s, 1, Len(s) - 1))
    ELSE s

\* index of the first lexeme of s at or after from that is in T; 0 if none
FirstIn(s, T, from) ==
    LET I == {i \in from..Len(s) : s[i] \in T}
    IN  IF I = {} THEN 0 ELSE CHOOSE i \in I : \A j \in I : i <= j

\* s.match(/<tag[^>]*>/i) finds something
Matches(s, T) == FirstIn(s, T, 1) # 0

\* s.match(/<open[^>]*>([\s\S]*?)<\/close>/i): <<found, captured group>>.
\* The leftmost opening tag that has a closing tag after it is the first
\* opening tag; the lazy group ends at the first closing tag after it.
MatchElement(s, Open, Close) ==
    LET i == FirstIn(s, Open, 1)
        j == IF i = 0 THEN 0 ELSE FirstIn(s, Close, i + 1)
    IN  IF j = 0 THEN [found |-> FALSE, group |-> <<>>, end |-> 0]
        ELSE [found |-> TRUE, group |-> SubSeq(s, i + 1, j - 1), end |-> j]

\* Array.from(s.matchAll(/<open[^>]*>([\s\S]*?)<\/close>/gi)): the groups
RECURSIVE MatchAllElements(_, _, _)
MatchAllElements(s, Open, Close) ==
    LET m == MatchElement(s, Open, Close)
    IN  IF ~m.found THEN <<>>
        ELSE <<m.group>> \o
             MatchAllElements(SubSeq(s, m.end + 1, Len(s)), Open, Close)

\* Array.from(s.matchAll(/<tag[^>]*>/gi)): the matched tags
RECURSIVE MatchAllTags(_, _)
MatchAllTags(s, T) ==
    IF s = <<>> THEN <<>>
    ELSE (IF Head(s) \in T THEN <<Head(s)>> ELSE <<>>) \o MatchAllTags(Tail(s), T)

\* errors.join(sep)
RECURSIVE Join(_, _)
Join(ss, sep) ==
    IF ss = <<>> THEN ""
    ELSE IF Len(ss) = 1 THEN ss[1]
    ELSE ss[1] \o sep \o Join(Tail(ss), sep)

----------------------------------------------------------------------------
(* validateFeedXML                                                         *)

\* where an internal exception may strike inside the try block
FaultPoints == {"none", "gate", "family", "filesize", "wellformed"}

GateError == "Feed does not appear to be valid XML"

\* variant: a gate that lets every text through to the family rules
PassesGateAlways(x) == x = x

\* the gate: the trimmed text starts with <?xml, <rss or <feed
PassesGate(x) ==
    \/ StartsWith(Trim(x), "<?xml")
    \/ StartsWith(Trim(x), "<rss")
    \/ StartsWith(Trim(x), "<feed")

IsRssFamily(x) == Includes(x, "<rss") \/ Includes(x, "<channel>")
IsAtomFamily(x) == Includes(x, "<feed") /\ Includes(x, "xmlns=Atom")

\* the violations of the items of the text, numbered in document order
RECURSIVE ItemErrors(_, _)
ItemErrors(items, n) ==
    IF items = <<>> THEN <<>>
    ELSE LET itemContent == Head(items)
             hasItemTitle == Matches(itemContent, TitleTags)
             hasItemDescription == Matches(itemContent, DescriptionTags)
         IN  (IF ~hasItemTitle /\ ~hasItemDescription
              THEN << "RSS item #" \o ToString(n) \o
                      " missing required <title> or <description> element" >>
              ELSE <<>>)
             \o ItemErrors(Tail(items), n + 1)

\* variant: a channel is also required to hold a <description>
ChannelErrorsWithDescription(x, channelContent) ==
    (IF ~Matches(channelContent, TitleTags)
     THEN <<"RSS feed missing required <title> element in <channel>">> ELSE <<>>)
    \o
    (IF ~Matches(channelContent, LinkTags)
     THEN <<"RSS feed missing required <link> element in <channel>">> ELSE <<>>)
    \o
    (IF ~Matches(channelContent, DescriptionTags)
     THEN <<"RSS feed missing required <description> element in <channel>">>
     ELSE <<>>)

\* the rules applied to the content of the channel
ChannelErrors(x, channelContent) ==
    LET titleMatch == MatchElement(channelContent, TitleTags, TitleCloseTags)
    IN  (IF ~titleMatch.found
         THEN <<"RSS feed missing required <title> element in <channel>">>
         ELSE IF Trim(titleMatch.group) = <<>>
         THEN <<"RSS feed <title> element in <channel> is empty">>
         ELSE <<>>)
        \o
        (IF ~Matches(channelContent, LinkTags)
         THEN <<"RSS feed missing required <link> element in <channel>">>
         ELSE <<>>)
        \o
        (IF ~Matches(x, ItemTags)
         THEN <<"RSS feed should contain at least one <item> element">>
         ELSE \* const itemMatches = Array.from(...), computed once
              CHOOSE errors \in {ItemErrors(itemMatches, 1) :
                  itemMatches \in {MatchAllElements(x, ItemTags, ItemCloseTags)}} :
                      TRUE)

\* the RSS branch
RssErrors(x) ==
    LET rssAt == FirstIn(x, RssTags, 1)
        hasChannel == Includes(x, "<channel>") \/ Includes(x, "<channel ")
        channelMatch == MatchElement(x, ChannelTags, ChannelCloseTags)
    IN  (IF rssAt # 0 /\ x[rssAt] \notin Literal("version=")
         THEN <<"RSS feed should declare version attribute (e.g., version=\"2.0\")">>
         ELSE <<>>)
        \o
        (IF ~hasChannel
         THEN <<"RSS feed missing required <channel> element">>
         ELSE <<>>)
        \o
        (IF channelMatch.found
         THEN \* const channelContent = channelMatch[1], computed once
              CHOOSE errors \in {ChannelErrors(x, channelContent) :
                                    channelContent \in {channelMatch.group}} : TRUE
         ELSE IF hasChannel
         THEN <<"RSS feed has <channel> tag but content could not be parsed">>
         ELSE <<>>)

\* the Atom branch
AtomErrors(x) ==
    (IF ~Matches(x, TitleTags)
     THEN <<"Atom feed missing required <title> element in <feed>">> ELSE <<>>)
    \o
    (IF ~Matches(x, IdTags)
     THEN <<"Atom feed missing required <id> element in <feed>">> ELSE <<>>)
    \o
    (IF ~Matches(x, UpdatedTags)
     THEN <<"Atom feed missing required <updated> element in <feed>">> ELSE <<>>)
    \o
    (IF ~Matches(x, EntryTags)
     THEN <<"Atom feed should contain at least one <entry> element">> ELSE <<>>)

\* the family rules: RSS, else Atom, else not recognized
FamilyErrors(x) ==
    IF IsRssFamily(x) THEN RssErrors(x)
    ELSE IF IsAtomFamily(x) THEN AtomErrors(x)
    ELSE <<"Feed does not appear to be a valid RSS 2.0 or Atom feed">>

\* the number of <media:content> tags that carry filesize=
FilesizeErrorCount(x) ==
    Cardinality({i \in 1..Len(x) :
                    x[i] \in MediaContentTags /\ x[i] \in Literal("filesize=")})

\* variant: one violation for each tag that carries filesize=
FilesizeErrorsPerTag(x) ==
    [i \in 1..FilesizeErrorCount(x) |->
        "Unexpected filesize attribute on media:content element (1 occurrence)"]

\* the aggregated violation of lines 107-109
FilesizeErrors(x) ==
    LET filesizeErrorCount == FilesizeErrorCount(x)
    IN  IF filesizeErrorCount > 0
        THEN << "Unexpected filesize attribute on media:content element (" \o
                ToString(filesizeErrorCount) \o " occurrence" \o
                (IF filesizeErrorCount > 1 THEN "s" ELSE "") \o ")" >>
        ELSE <<>>

\* variant: a catch block that forgets to record the exception
ValidationCaughtSilently(errors) == [isValid |-> FALSE, errors |-> errors]

\* the catch block: one more violation, and the outcome is invalid
ValidationCaught(errors) ==
    [isValid |-> FALSE,
     errors  |-> Append(errors, "XML validation error: internal error")]

\* the normal return of the try block
ValidationReturn(errors) == [isValid |-> Len(errors) = 0, errors |-> errors]

validateFeedXML(x, f) ==
    IF f = "gate" THEN ValidationCaught(<<>>)
    ELSE IF ~PassesGate(x) THEN [isValid |-> FALSE, errors |-> <<GateError>>]
    ELSE IF f = "family" THEN ValidationCaught(<<>>)
    ELSE IF f = "filesize" THEN ValidationCaught(FamilyErrors(x))
    ELSE IF f = "wellformed"
         THEN ValidationCaught(FamilyErrors(x) \o FilesizeErrors(x))
    ELSE ValidationReturn(FamilyErrors(x) \o FilesizeErrors(x))

----------------------------------------------------------------------------
(* Errors and the outer catch block of POST.                               *)

\* the substrings the catch block looks for that a message contains
Mentions(message) ==
    CASE message = "Request timed out after 20000ms" -> {}
      [] message = "Request timed out. The feed may be slow or unavailable." -> {}
      [] message = "network timeout at: http://feed" -> {"timeout"}
      [] message = "getaddrinfo ENOTFOUND feed" -> {"ENOTFOUND", "getaddrinfo"}
      [] message = "HTTP 404: Not Found" -> {"404"}
      [] message = "Status code 404" -> {"404"}
      [] message = "Unexpected close tag Line: 404 Column: 7" -> {"404"}
      [] message = "blocked by CORS policy" -> {"CORS"}
      [] OTHER -> {}

\* message.includes(lit)
MessageIncludes(message, lit) == lit \in Mentions(message)

\* what fetch() or response.text() may reject with, or line 158 throws
FetchErrors ==
    {"fetch failed", "getaddrinfo ENOTFOUND feed", "network timeout at: http://feed",
     "HTTP 404: Not Found", "HTTP 500: Internal Server Error", "blocked by CORS policy"}

\* what parser.parseURL may reject with
ParserErrors ==
    {"Status code 404", "Request timed out after 20000ms",
     "getaddrinfo ENOTFOUND feed", "Feed not recognized as RSS 1 or 2.",
     "Unexpected close tag Line: 404 Column: 7", "Unclosed root tag", ""}

TimedOutError == "Request timed out. The feed may be slow or unavailable."

\* the message the catch block puts into the report
ErrorMessage(message) ==
    IF message # "" THEN
        IF MessageIncludes(message, "timeout")
        THEN "Request timed out. The feed may be slow or unavailable."
        ELSE IF MessageIncludes(message, "ENOTFOUND")
                \/ MessageIncludes(message, "getaddrinfo")
        THEN "Could not reach the feed URL. Please check if the URL is correct."
        ELSE IF MessageIncludes(message, "404")
        THEN "Feed not found (404). Please check if the URL is correct."
        ELSE IF MessageIncludes(message, "CORS")
                \/ MessageIncludes(message, "Access-Control")
        THEN "CORS error. The feed server may be blocking requests."
        ELSE message
    ELSE "Failed to parse RSS feed"

\* variant: a catch block that answers with a server error status
CatchResponseServerError(message) ==
    [status |-> 500,
     json   |-> [isValid |-> FALSE, availableFields |-> <<>>,
                 hasFeaturedImage |-> FALSE, contentType |-> "unknown",
                 error |-> ErrorMessage(message)]]

\* the response of the catch block
CatchResponse(message) ==
    [status |-> 200,
     json   |-> [isValid |-> FALSE, availableFields |-> <<>>,
                 hasFeaturedImage |-> FALSE, contentType |-> "unknown",
                 error |-> ErrorMessage(message)]]

\* the response to a text the validator rejected
InvalidResponse(v) ==
    [status |-> 200,
     json   |-> [isValid |-> FALSE, availableFields |-> <<>>,
                 hasFeaturedImage |-> FALSE, contentType |-> "unknown",
                 error |-> "Feed validation failed: " \o Join(v.errors, "; "),
                 validationErrors |-> v.errors]]

BadRequest(message) == [status |-> 400, json |-> [error |-> message]]

----------------------------------------------------------------------------
(* The ParsedFeed the parser hands back.                                   *)
(* Plain fields are strings, "" when the field is absent.  A text field    *)
(* (content, description, contentEncoded) records what the analysis reads  *)
(* of it: whether it is a string at all, its length, how much of it is     *)
(* markup, whether it holds an <img tag and with which src, and whether it *)
(* mentions og:image.                                                      *)

Undefined == [kind |-> "undefined", chars |-> 0, markup |-> 0,
              img |-> FALSE, src |-> "", og |-> FALSE]
\* a string of n characters without markup
Plain(n) == [Undefined EXCEPT !.kind = "string", !.chars = n]
\* a string holding an <img src=u> tag (u = "" when the tag has no src)
WithImg(u) == [Undefined EXCEPT !.kind = "string", !.chars = 40, !.markup = 20,
                                !.img = TRUE, !.src = u]
\* a string holding an <img src=u> tag and an og:image marker
WithOg(u) == [WithImg(u) EXCEPT !.og = TRUE]
\* a string of n characters of which m are inside markup tags
Markup(n, m) == [Undefined EXCEPT !.kind = "string", !.chars = n, !.markup = m]
\* a value that is no string (an element with attributes)
Object == [Undefined EXCEPT !.kind = "object"]

NoMedia == [kind |-> "undefined", url |-> ""]
MediaObject(u) == [kind |-> "object", url |-> u]

NoEnclosure == [kind |-> "undefined", type |-> "", url |-> ""]
Enclosure(t, u) == [kind |-> "object", type |-> t, url |-> u]

\* times are counted in minutes; NaN stands for an unparsable date
NaN == -1
NoDate == [raw |-> "", time |-> NaN]
\* a pubDate that new Date() parses to minute t, and one it cannot parse
Date(t) == [raw |-> "date " \o ToString(t), time |-> t]
Unparsable(r) == [raw |-> r, time |-> NaN]

NoItem ==
    [title |-> "", link |-> "", content |-> Undefined, contentSnippet |-> "",
     description |-> Undefined, categories |-> <<>>, pubDate |-> NoDate,
     creator |-> "", author |-> "", guid |-> "", contentEncoded |-> Undefined,
     mediaContent |-> NoMedia, mediaThumbnail |-> NoMedia,
     enclosure |-> NoEnclosure, image |-> FALSE]

NoFeed == [title |-> "", link |-> "", description |-> "", categories |-> <<>>,
           items |-> <<>>]

\* JavaScript truthiness of a text, media or enclosure value
Truthy(v) ==
    /\ v.kind # "undefined"
    /\ (v.kind = "string" /\ "chars" \in DOMAIN v) => v.chars > 0

\* v.includes('<img') of a string
IncludesImg(v) == v.img

\* item.contentEncoded || item.content || item.description || ''
BestContent(item) ==
    IF Truthy(item.contentEncoded) THEN item.contentEncoded
    ELSE IF Truthy(item.content) THEN item.content
    ELSE IF Truthy(item.description) THEN item.description
    ELSE Plain(0)

\* item.enclosure && item.enclosure.type?.startsWith('image/')
IsImageEnclosure(item) ==
    Truthy(item.enclosure) /\ item.enclosure.type \in {"image/jpeg", "image/png"}

----------------------------------------------------------------------------
(* The featured-image flag (lines 241-284).                                *)

\* variant: a loop body that leaves out the content:encoded check
FeaturedImageOfItemNoEncoded(item) ==
    IF Truthy(item.mediaContent) THEN "true"
    ELSE IF Truthy(item.mediaThumbnail) THEN "true"
    ELSE IF IsImageEnclosure(item) THEN "true"
    ELSE IF item.image THEN "true"
    ELSE IF Truthy(item.description) /\ item.description.kind = "object" THEN "throw"
    ELSE IF Truthy(item.description) /\ IncludesImg(item.description) THEN "true"
    ELSE "false"

\* one round of the loop: "true" (break), "false" (next item), or "throw"
\* (a string method called on a value that is no string)
FeaturedImageOfItem(item) ==
    IF Truthy(item.mediaContent) THEN "true"
    ELSE IF Truthy(item.mediaThumbnail) THEN "true"
    ELSE IF IsImageEnclosure(item) THEN "true"
    ELSE IF item.image THEN "true"
    ELSE IF Truthy(item.description) /\ item.description.kind = "object" THEN "throw"
    ELSE IF Truthy(item.description) /\ IncludesImg(item.description) THEN "true"
    ELSE IF Truthy(item.contentEncoded) /\ item.contentEncoded.kind = "object"
         THEN "throw"
    ELSE IF Truthy(item.contentEncoded) /\ IncludesImg(item.contentEncoded)
         THEN "true"
    ELSE "false"

RECURSIVE FeaturedImageLoop(_)
FeaturedImageLoop(items) ==
    IF items = <<>> THEN "false"
    ELSE LET r == FeaturedImageOfItem(Head(items))
         IN  IF r = "false" THEN FeaturedImageLoop(Tail(items)) ELSE r

HasFeaturedImage(f) == FeaturedImageLoop(f.items) = "true"

----------------------------------------------------------------------------
(* The other analysis stages.                                              *)

\* every field name Field Discovery can add
FieldOrder ==
    <<"author", "categories", "content", "content:encoded", "contentSnippet",
      "creator", "description", "enclosure", "guid", "image", "link",
      "media:content", "media:thumbnail", "pubDate", "title">>

\* the members of seq that are in S, in the order of seq
RECURSIVE Filter(_, _)
Filter(seq, S) ==
    IF seq = <<>> THEN <<>>
    ELSE (IF Head(seq) \in S THEN <<Head(seq)>> ELSE <<>>) \o Filter(Tail(seq), S)

\* the UTF-16 code units of a field name
CodeUnits(name) ==
    CASE name = "author" ->
            <<97, 117, 116, 104, 111, 114>>
      [] name = "categories" ->
            <<99, 97, 116, 101, 103, 111, 114, 105, 101, 115>>
      [] name = "content" ->
            <<99, 111, 110, 116, 101, 110, 116>>
      [] name = "content:encoded" ->
            <<99, 111, 110, 116, 101, 110, 116, 58, 101, 110, 99, 111, 100, 101, 100>>
      [] name = "contentSnippet" ->
            <<99, 111, 110, 116, 101, 110, 116, 83, 110, 105, 112, 112, 101, 116>>
      [] name = "creator" ->
            <<99, 114, 101, 97, 116, 111, 114>>
      [] name = "description" ->
            <<100, 101, 115, 99, 114, 105, 112, 116, 105, 111, 110>>
      [] name = "enclosure" ->
            <<101, 110, 99, 108, 111, 115, 117, 114, 101>>
      [] name = "guid" ->
            <<103, 117, 105, 100>>
      [] name = "image" ->
            <<105, 109, 97, 103, 101>>
      [] name = "link" ->
            <<108, 105, 110, 107>>
      [] name = "media:content" ->
            <<109, 101, 100, 105, 97, 58, 99, 111, 110, 116, 101, 110, 116>>
      [] name = "media:thumbnail" ->
            <<109, 101, 100, 105, 97, 58, 116, 104, 117, 109, 98, 110, 97, 105, 108>>
      [] name = "pubDate" ->
            <<112, 117, 98, 68, 97, 116, 101>>
      [] name = "title" ->
            <<116, 105, 116, 108, 101>>

\* a < b as Array.prototype.sort() compares two strings without a comparator:
\* by their code units, a proper prefix first
Before(a, b) ==
    LET u == CodeUnits(a)
        v == CodeUnits(b)
    IN  \E k \in 1..(Len(u) + 1) :
            /\ \A i \in 1..(k - 1) : i <= Len(v) /\ u[i] = v[i]
            /\ \/ k = Len(u) + 1 /\ Len(v) >= k
               \/ k <= Len(u) /\ k <= Len(v) /\ u[k] < v[k]

\* names.sort(), for names that differ from each other: each name goes to
\* the place that the number of names before it gives
SortNames(names) ==
    LET S == {names[i] : i \in 1..Len(names)}
    IN  [i \in 1..Len(names) |->
            CHOOSE n \in S : Cardinality({m \in S : Before(m, n)}) = i - 1]

\* the names a Set holds after the adds of seq, in insertion order
RECURSIVE SetOrder(_, _)
SetOrder(seq, seen) ==
    IF seq = <<>> THEN <<>>
    ELSE IF Head(seq) \in seen THEN SetOrder(Tail(seq), seen)
    ELSE <<Head(seq)>> \o SetOrder(Tail(seq), seen \cup {Head(seq)})

\* Array.from(availableFields): the adds of lines 208-238 in their order
AddedFields(f) ==
    LET add(cond, name) == IF cond THEN <<name>> ELSE <<>>
        ofFeed ==
            add(f.title # "", "title") \o add(f.link # "", "link") \o
            add(f.description # "", "description") \o
            add(Len(f.categories) > 0, "categories")
        ofItem ==
            IF Len(f.items) > 0 THEN
                LET firstItem == f.items[1] IN
                add(firstItem.title # "", "title") \o
                add(firstItem.link # "", "link") \o
                add(Truthy(firstItem.content), "content") \o
                add(firstItem.contentSnippet # "", "contentSnippet") \o
                add(Truthy(firstItem.description), "description") \o
                add(Len(firstItem.categories) > 0, "categories") \o
                add(firstItem.pubDate.raw # "", "pubDate") \o
                add(firstItem.creator # "", "creator") \o
                add(firstItem.author # "", "author") \o
                add(firstItem.guid # "", "guid") \o
                add(Truthy(firstItem.contentEncoded), "content:encoded") \o
                add(Truthy(firstItem.mediaContent), "media:content") \o
                add(Truthy(firstItem.mediaThumbnail), "media:thumbnail") \o
                add(Truthy(firstItem.enclosure), "enclosure") \o
                add(firstItem.image, "image")
            ELSE <<>>
    IN  SetOrder(ofFeed \o ofItem, {})

\* variant: the names are reported in the order they were added
AvailableFieldsUnsorted(f) == AddedFields(f)

\* Array.from(availableFields).sort()
AvailableFields(f) == SortNames(AddedFields(f))

\* content.replace(/<[^>]*>/g, '').length
StrippedLength(v) == v.chars - v.markup

ContentThreshold == 500

\* variant: a classifier that calls a text of exactly 500 characters full
ContentTypeFrom500(f) ==
    IF Len(f.items) > 0 THEN
        LET contentLength == StrippedLength(BestContent(f.items[1]))
        IN  IF contentLength >= ContentThreshold THEN "full"
            ELSE IF contentLength > 0 THEN "excerpt"
            ELSE "unknown"
    ELSE "unknown"

ContentType(f) ==
    IF Len(f.items) > 0 THEN
        LET contentLength == StrippedLength(BestContent(f.items[1]))
        IN  IF contentLength > ContentThreshold THEN "full"
            ELSE IF contentLength > 0 THEN "excerpt"
            ELSE "unknown"
    ELSE "unknown"

Null == "null"

\* the times of the items whose pubDate is present and parses, in item order
RECURSIVE ParsedDates(_)
ParsedDates(items) ==
    IF items = <<>> THEN <<>>
    ELSE (IF Head(items).pubDate.raw # "" /\ Head(items).pubDate.time # NaN
          THEN <<Head(items).pubDate.time>> ELSE <<>>)
         \o ParsedDates(Tail(items))

SeqMax(ts) == CHOOSE t \in {ts[i] : i \in 1..Len(ts)} : \A i \in 1..Len(ts) : ts[i] <= t
SeqMin(ts) == CHOOSE t \in {ts[i] : i \in 1..Len(ts)} : \A i \in 1..Len(ts) : t <= ts[i]

\* toLocaleString with year, month, day, hour and minute: the minute of the date
FormatDate(t) == "minute " \o ToString(t)

\* variant: the date of the first item is taken for the latest one
LastUpdateOfFirst(f) ==
    IF Len(f.items) > 0 THEN
        LET dates == ParsedDates(f.items)
        IN  IF dates # <<>> THEN FormatDate(Head(dates))
            ELSE IF f.items[1].pubDate.raw # "" THEN f.items[1].pubDate.raw
            ELSE Null
    ELSE Null

LastUpdate(f) ==
    IF Len(f.items) > 0 THEN
        LET dates == ParsedDates(f.items)
        IN  IF dates # <<>> THEN FormatDate(SeqMax(dates))
            ELSE IF f.items[1].pubDate.raw # "" THEN f.items[1].pubDate.raw
            ELSE Null
    ELSE Null

\* the first <rss ...> tag that carries a version attribute, and its value
VersionOf(tag) ==
    CASE tag = "<rss version>" -> "2.0"
      [] tag = "<rss version=0.92>" -> "0.92"
      [] OTHER -> ""

\* variant: the Atom marker is looked for before the RSS marker
FeedTypeAtomFirst(x) ==
    IF Includes(x, "<feed") /\ Includes(x, "xmlns=Atom") THEN "Atom"
    ELSE IF Includes(x, "<rss") THEN
        LET i == FirstIn(x, {"<rss version>", "<rss version=0.92>"}, 1)
        IN  IF i # 0 /\ VersionOf(x[i]) # ""
            THEN (IF VersionOf(x[i]) = "2.0" THEN "RSS 2.0"
                  ELSE "RSS " \o VersionOf(x[i]))
            ELSE "RSS 2.0"
    ELSE IF Includes(x, "<rdf:RDF") THEN "RDF"
    ELSE "Unknown"

\* variant: a detector without the RDF branch
FeedTypeNoRdf(x) ==
    IF Includes(x, "<rss") THEN
        LET i == FirstIn(x, {"<rss version>", "<rss version=0.92>"}, 1)
        IN  IF i # 0 /\ VersionOf(x[i]) # ""
            THEN (IF VersionOf(x[i]) = "2.0" THEN "RSS 2.0"
                  ELSE "RSS " \o VersionOf(x[i]))
            ELSE "RSS 2.0"
    ELSE IF Includes(x, "<feed") /\ Includes(x, "xmlns=Atom") THEN "Atom"
    ELSE "Unknown"

\* the feed type detection of lines 339-352
FeedType(x) ==
    IF Includes(x, "<rss") THEN
        LET i == FirstIn(x, {"<rss version>", "<rss version=0.92>"}, 1)
        IN  IF i # 0 /\ VersionOf(x[i]) # ""
            THEN (IF VersionOf(x[i]) = "2.0" THEN "RSS 2.0"
                  ELSE "RSS " \o VersionOf(x[i]))
            ELSE "RSS 2.0"
    ELSE IF Includes(x, "<feed") /\ Includes(x, "xmlns=Atom") THEN "Atom"
    ELSE IF Includes(x, "<rdf:RDF") THEN "RDF"
    ELSE "Unknown"

MinutesPerDay == 1440

\* Math.round(a / b) for a >= 0, b > 0
Round(a, b) == (2 * a + b) \div (2 * b)

Posts(n, unit) ==
    IF n = 1 THEN "1 post per " \o unit
    ELSE ToString(n) \o " posts per " \o unit

\* The averages are IEEE-754 doubles: daysDiff = timeDiff / 86400000 and
\* avgDaysBetween = daysDiff / gaps are each rounded to the nearest double.
\* The rounding shows only where the exact value sits on a threshold: an
\* average of exactly a tenth of a day, and a quotient k / avgDaysBetween of
\* exactly a whole number and a half.  Both tables hold for up to 8 gaps.

\* the gaps for which the double (gaps / 10) / gaps is below the double 0.1
TenthRoundsDown(gaps) == gaps \in {3, 6, 7}

\* avgDaysBetween < 0.1
BelowTenth(span, gaps) ==
    \/ 10 * span < MinutesPerDay * gaps
    \/ 10 * span = MinutesPerDay * gaps /\ TenthRoundsDown(gaps)

\* the <<k, n, gaps>> for which the double k / avgDaysBetween is below
\* n + 1/2 although k divided by the exact average is n + 1/2
TiesRoundedDown == {<<7, 2, 3>>, <<1, 1, 5>>, <<7, 2, 6>>, <<1, 1, 7>>, <<7, 2, 7>>}

\* Math.round(k / avgDaysBetween)
RoundQuotient(k, gaps, span) ==
    LET a == k * MinutesPerDay * gaps
        n == a \div span
    IN  IF 2 * a = (2 * n + 1) * span /\ <<k, n, gaps>> \in TiesRoundedDown
        THEN n
        ELSE Round(a, span)

\* variant: the dates are not sorted before the first is taken from the last
PostFrequencyUnsorted(f) ==
    IF Len(f.items) > 1 THEN
        LET dates == ParsedDates(f.items)
        IN  IF Len(dates) > 1 THEN
                LET span == dates[Len(dates)] - dates[1]
                    gaps == Len(dates) - 1
                    day  == MinutesPerDay * gaps
                IN  IF BelowTenth(span, gaps) THEN "Multiple posts per day"
                    ELSE IF span < day THEN Posts(RoundQuotient(1, gaps, span), "day")
                    ELSE IF span < 7 * day THEN Posts(RoundQuotient(7, gaps, span), "week")
                    ELSE IF span < 30 * day
                    THEN Posts(RoundQuotient(30, gaps, span), "month")
                    ELSE "Less than 1 post per month"
            ELSE Null
    ELSE Null

\* variant: the span is divided by the number of dates, not of gaps
PostFrequencyPerDate(f) ==
    IF Len(f.items) > 1 THEN
        LET dates == ParsedDates(f.items)
        IN  IF Len(dates) > 1 THEN
                LET span == SeqMax(dates) - SeqMin(dates)
                    gaps == Len(dates)
                    day  == MinutesPerDay * gaps
                IN  IF BelowTenth(span, gaps) THEN "Multiple posts per day"
                    ELSE IF span < day THEN Posts(RoundQuotient(1, gaps, span), "day")
                    ELSE IF span < 7 * day THEN Posts(RoundQuotient(7, gaps, span), "week")
                    ELSE IF span < 30 * day
                    THEN Posts(RoundQuotient(30, gaps, span), "month")
                    ELSE "Less than 1 post per month"
            ELSE Null
    ELSE Null

\* avgDaysBetween is span / (MinutesPerDay * gaps) days
PostFrequency(f) ==
    IF Len(f.items) > 1 THEN
        LET dates == ParsedDates(f.items)
        IN  IF Len(dates) > 1 THEN
                LET span == SeqMax(dates) - SeqMin(dates)
                    gaps == Len(dates) - 1
                    day  == MinutesPerDay * gaps
                IN  IF BelowTenth(span, gaps) THEN "Multiple posts per day"
                    ELSE IF span < day THEN Posts(RoundQuotient(1, gaps, span), "day")
                    ELSE IF span < 7 * day THEN Posts(RoundQuotient(7, gaps, span), "week")
                    ELSE IF span < 30 * day
                    THEN Posts(RoundQuotient(30, gaps, span), "month")
                    ELSE "Less than 1 post per month"
            ELSE Null
    ELSE Null

\* variant: the link is not taken when the guid is missing
IdentityKeyGuidOnly(item) == item.guid

\* item.guid || item.link || ''
IdentityKey(item) == IF item.guid # "" THEN item.guid ELSE item.link

\* the keys of guidMap in insertion order
RECURSIVE KeysInOrder(_, _)
KeysInOrder(items, seen) ==
    IF items = <<>> THEN <<>>
    ELSE LET guid == IdentityKey(Head(items))
         IN  IF guid # "" /\ guid \notin seen
             THEN <<guid>> \o KeysInOrder(Tail(items), seen \cup {guid})
             ELSE KeysInOrder(Tail(items), seen)

DuplicateGuids(f) ==
    LET count(g) == Cardinality({i \in 1..Len(f.items) : IdentityKey(f.items[i]) = g})
        keys == KeysInOrder(f.items, {})
    IN  Filter(keys, {g \in {keys[i] : i \in 1..Len(keys)} : count(g) > 1})

MissingFields(f) ==
    IF Len(f.items) > 0 THEN
        LET firstItem == f.items[1] IN
        (IF firstItem.title = "" THEN <<"title">> ELSE <<>>) \o
        (IF firstItem.link = "" THEN <<"link">> ELSE <<>>) \o
        (IF ~Truthy(firstItem.description) /\ ~Truthy(firstItem.content)
         THEN <<"description">> ELSE <<>>)
    ELSE <<>>

----------------------------------------------------------------------------
(* The image source breakdown and the sample image URLs (lines 428-516).   *)

\* tag.match(/url=["']([^"']+)["']/i) of a <media:thumbnail> tag of the text
UrlAttribute(tag) ==
    CASE tag = "<media:thumbnail url=t1>" -> "http://x/t1.jpg"
      [] tag = "<media:thumbnail url=t2>" -> "http://x/t2.jpg"
      [] OTHER -> ""

SeqToSet(seq) == {seq[i] : i \in 1..Len(seq)}

\* imageUrls.push(u), when there is a u
Push(urls, u) == IF u # "" THEN Append(urls, u) ELSE urls
\* if (u && !imageUrls.includes(u)) imageUrls.push(u)
PushNew(urls, u) == IF u # "" /\ u \notin SeqToSet(urls) THEN Append(urls, u) ELSE urls

RECURSIVE ThumbnailUrls(_)
ThumbnailUrls(tags) ==
    IF tags = <<>> THEN <<>>
    ELSE Push(<<>>, UrlAttribute(Head(tags))) \o ThumbnailUrls(Tail(tags))

\* the pre-pass over the raw text (lines 438-448)
ThumbnailPrePass(x) ==
    LET mediaThumbnailMatches == MatchAllTags(x, MediaThumbnailTags)
    IN  [sources |-> [mediaContent |-> 0,
                      mediaThumbnail |-> Len(mediaThumbnailMatches),
                      enclosure |-> 0, imgTag |-> 0, openGraph |-> 0],
         urls    |-> ThumbnailUrls(mediaThumbnailMatches)]

\* variant: an item is counted under the first signal it shows only
ImageSourcesOfItemExclusive(acc, item) ==
    LET content == BestContent(item)
    IN  IF Truthy(item.mediaContent)
        THEN [acc EXCEPT !.sources.mediaContent = @ + 1,
                         !.urls = Push(@, item.mediaContent.url)]
        ELSE IF Truthy(item.mediaThumbnail)
        THEN [acc EXCEPT !.sources.mediaThumbnail = IF @ = 0 THEN 1 ELSE @,
                         !.urls = PushNew(@, item.mediaThumbnail.url)]
        ELSE IF IsImageEnclosure(item)
        THEN [acc EXCEPT !.sources.enclosure = @ + 1,
                         !.urls = PushNew(@, item.enclosure.url)]
        ELSE IF IncludesImg(content)
        THEN [acc EXCEPT !.sources.imgTag = @ + 1,
                         !.urls = PushNew(@, content.src)]
        ELSE IF content.og THEN [acc EXCEPT !.sources.openGraph = @ + 1]
        ELSE acc

\* one round of the loop of lines 451-506
ImageSourcesOfItem(acc, item) ==
    LET content == BestContent(item)
        s1 == IF Truthy(item.mediaContent)
              THEN [acc EXCEPT !.sources.mediaContent = @ + 1,
                               !.urls = Push(@, item.mediaContent.url)]
              ELSE acc
        s2 == IF Truthy(item.mediaThumbnail)
              THEN [s1 EXCEPT !.sources.mediaThumbnail = IF @ = 0 THEN 1 ELSE @,
                              !.urls = PushNew(@, item.mediaThumbnail.url)]
              ELSE s1
        s3 == IF IsImageEnclosure(item)
              THEN [s2 EXCEPT !.sources.enclosure = @ + 1,
                              !.urls = PushNew(@, item.enclosure.url)]
              ELSE s2
        s4 == IF IncludesImg(content)
              THEN [s3 EXCEPT !.sources.imgTag = @ + 1,
                              !.urls = PushNew(@, content.src)]
              ELSE s3
    IN  IF content.og THEN [s4 EXCEPT !.sources.openGraph = @ + 1] ELSE s4

RECURSIVE ImageSourcesLoop(_, _)
ImageSourcesLoop(acc, items) ==
    IF items = <<>> THEN acc
    ELSE ImageSourcesLoop(ImageSourcesOfItem(acc, Head(items)), Tail(items))

ImageAnalysis(x, f) == ImageSourcesLoop(ThumbnailPrePass(x), f.items)

SampleSize == 2

\* imageUrls.slice(0, 2), each wrapped as {url}
ImageResolutions(urls) ==
    [i \in 1..(IF Len(urls) < SampleSize THEN Len(urls) ELSE SampleSize) |->
        [url |-> urls[i]]]

----------------------------------------------------------------------------
(* The analysis as a whole (lines 204-532).                                *)

\* a TypeError: a string method is called on a field that is no string
AnalysisThrows(f) ==
    \/ FeaturedImageLoop(f.items) = "throw"
    \/ \E i \in 1..Len(f.items) : BestContent(f.items[i]).kind = "object"

TypeErrorMessage == "content.includes is not a function"

\* variant: an empty list is kept in the body
OptionalKept(present, field) == field

\* a key of the body that JSON.stringify drops when its value is undefined
Optional(present, field) == IF present THEN field ELSE <<>>

ValidResponse(x, f) ==
    LET images == ImageAnalysis(x, f)
        duplicateGuids == DuplicateGuids(f)
        missingFields == MissingFields(f)
        imageResolutions == ImageResolutions(images.urls)
    IN  [status |-> 200,
         json   |->
            [isValid |-> TRUE,
             title |-> IF f.title # "" THEN f.title ELSE "Untitled Feed",
             availableFields |-> AvailableFields(f),
             hasFeaturedImage |-> HasFeaturedImage(f),
             contentType |-> ContentType(f),
             lastUpdate |-> LastUpdate(f),
             itemCount |-> Len(f.items),
             feedType |-> FeedType(x),
             postFrequency |-> PostFrequency(f),
             imageSources |-> images.sources]
            @@ Optional(Len(duplicateGuids) > 0, [duplicateGuids |-> duplicateGuids])
            @@ Optional(Len(missingFields) > 0, [missingFields |-> missingFields])
            @@ Optional(Len(imageResolutions) > 0,
                        [imageResolutions |-> imageResolutions])]

----------------------------------------------------------------------------
(* The request.                                                            *)

\* the request bodies: no JSON at all, JSON null, and objects
Bodies == {"not json", "null", "{}", "{url: 5}", "{url: ''}",
           "{url: 'feed.xml'}", "{url: 'http://feed'}"}

\* await request.json() rejects (a SyntaxError)
JsonError(b) == IF b = "not json" THEN "Unexpected token < in JSON at position 0" ELSE ""

\* const { url } = null throws (a TypeError)
DestructureError(b) ==
    IF b = "null" THEN "Cannot destructure property 'url' of null" ELSE ""

\* the url of the body
UrlOf(b) ==
    CASE b = "{url: 5}"            -> [type |-> "number", text |-> "5"]
      [] b = "{url: ''}"           -> [type |-> "string", text |-> ""]
      [] b = "{url: 'feed.xml'}"   -> [type |-> "string", text |-> "feed.xml"]
      [] b = "{url: 'http://feed'}"-> [type |-> "string", text |-> "http://feed"]
      [] OTHER                     -> [type |-> "undefined", text |-> ""]

\* !url || typeof url !== 'string'
NotAString(url) ==
    url.type = "undefined" \/ url.text = "" \/ url.type # "string"

\* new URL(url) does not throw
IsAbsoluteUrl(url) == url.text \in {"http://feed"}

\* some texts a feed URL may serve
ValidRss == Flatten(<<"rss_v", "channel", "title", "link", "item_t", "channel_c">>)
ThumbRss == Flatten(<<"rss_v", "channel", "title", "link", "item_t", "mt_1",
                      "channel_c">>)
BrokenRss == Flatten(<<"rss_nv", "channel", "link", "channel_c">>)
ValidAtom == Flatten(<<"feed_a", "title", "id", "updated", "entry_t">>)
HtmlPage == Flatten(<<"html">>)
PostDocs == {ValidRss, BrokenRss, ValidAtom, HtmlPage}

\* some feeds the parser may hand back
PlainItem == [NoItem EXCEPT !.title = "A", !.link = "http://x/a",
                            !.content = Plain(600), !.description = Plain(600)]
ImageItem == [PlainItem EXCEPT !.description = WithImg("http://x/a.jpg"),
                               !.content = WithImg("http://x/a.jpg")]
ObjectItem == [PlainItem EXCEPT !.description = Object]
FeedOf(items) == [NoFeed EXCEPT !.title = "Feed", !.link = "http://x",
                                !.items = items]
\* a feed without a title whose only item has nothing but a guid
BareFeed == [NoFeed EXCEPT !.items = <<[NoItem EXCEPT !.guid = "g1"]>>]
PostFeeds == {NoFeed, FeedOf(<<PlainItem>>), FeedOf(<<PlainItem, ImageItem>>),
              FeedOf(<<ObjectItem>>), BareFeed}

NoValidation == [isValid |-> FALSE, errors |-> <<>>]
NoResponse == [status |-> 0, json |-> [pending |-> TRUE]]
NoError == [at |-> None, message |-> ""]
NoCalls == [fetch |-> 0, validate |-> 0, parse |-> 0, analyse |-> 0]
\* no earlier request: nothing read, nothing parsed, nothing answered
NoEarlier == [ran |-> FALSE, xmlContent |-> <<>>, validated |-> FALSE,
            parsed |-> <<>>, outcome |-> None, message |-> "", feed |-> NoFeed,
            response |-> NoResponse]
\* no second invocation of POST
NoPeer == [id |-> 0]
\* result === null, and the result after setResult(value)
NoResult == [isNull |-> TRUE]
Shown(value) == [isNull |-> FALSE, value |-> value]
\* the page is not open
NoPage == [at |-> "closed", url |-> "", loading |-> FALSE, result |-> NoResult,
           submits |-> 0]

\* an exception reaches the outer catch block, which answers
Catch(stage, message) ==
    /\ caught' = [at |-> stage, message |-> message]
    /\ response' = CatchResponse(message)
    /\ pc' = "done"

\* await request.json(), the two URL checks, and the call of fetch
ReadBody ==
    /\ pc = "start"
    /\ IF JsonError(body) # ""
       THEN Catch("body", JsonError(body)) /\ UNCHANGED <<timer, calls>>
       ELSE IF DestructureError(body) # ""
       THEN Catch("body", DestructureError(body)) /\ UNCHANGED <<timer, calls>>
       ELSE IF NotAString(UrlOf(body))
       THEN /\ response' = BadRequest("Invalid URL provided")
            /\ pc' = "done"
            /\ UNCHANGED <<timer, calls, caught>>
       ELSE IF ~IsAbsoluteUrl(UrlOf(body))
       THEN /\ response' = BadRequest("Invalid URL format")
            /\ pc' = "done"
            /\ UNCHANGED <<timer, calls, caught>>
       ELSE /\ timer' = "armed"
            /\ calls' = [calls EXCEPT !.fetch = @ + 1]
            /\ pc' = "fetching"
            /\ UNCHANGED <<caught, response>>
    /\ UNCHANGED <<body, remote, changes, xmlContent, fault, validation, parsed, feed>>
    /\ UNCHANGED <<earlier, peer, page>>

\* fetch resolves with a response that is ok: POST goes on to read its body
FetchResponds ==
    /\ pc = "fetching"
    /\ timer = "armed"
    /\ pc' = "reading"
    /\ UNCHANGED <<body, remote, changes, timer, xmlContent, fault, validation,
                   parsed, feed, calls, caught, response>>
    /\ UNCHANGED <<earlier, peer, page>>

\* fetch rejects, or resolves with a response that is not ok (line 158)
FetchFails ==
    /\ pc = "fetching"
    /\ timer = "armed"
    /\ \E message \in FetchErrors : Catch("fetch", message)
    /\ timer' = "cleared"
    /\ UNCHANGED <<body, remote, changes, xmlContent, fault, validation, parsed,
                   feed, calls>>
    /\ UNCHANGED <<earlier, peer, page>>

\* variant: the text is kept without clearTimeout(timeoutId)
ReadTextKeepsTimer ==
    /\ pc = "reading"
    /\ timer = "armed"
    /\ xmlContent' = remote
    /\ pc' = "validating"
    /\ UNCHANGED <<body, remote, changes, timer, fault, validation, parsed, feed,
                   calls, caught, response>>
    /\ UNCHANGED <<earlier, peer, page>>

\* response.text() resolves: the text is what the URL serves now
ReadText ==
    /\ pc = "reading"
    /\ timer = "armed"
    /\ xmlContent' = remote
    /\ timer' = "cleared"
    /\ pc' = "validating"
    /\ UNCHANGED <<body, remote, changes, fault, validation, parsed, feed, calls,
                   caught, response>>
    /\ UNCHANGED <<earlier, peer, page>>

\* response.text() rejects
ReadTextFails ==
    /\ pc = "reading"
    /\ timer = "armed"
    /\ Catch("fetch", "fetch failed")
    /\ timer' = "cleared"
    /\ UNCHANGED <<body, remote, changes, xmlContent, fault, validation, parsed,
                   feed, calls>>
    /\ UNCHANGED <<earlier, peer, page>>

\* the 20 s timer fires while fetch or response.text() is pending: the
\* pending call rejects with an AbortError, rethrown as a timeout (line 166)
TimerFires ==
    /\ pc \in {"fetching", "reading"}
    /\ timer = "armed"
    /\ timer' = "fired"
    /\ Catch("fetch", TimedOutError)
    /\ UNCHANGED <<body, remote, changes, xmlContent, fault, validation, parsed,
                   feed, calls>>
    /\ UNCHANGED <<earlier, peer, page>>

\* await validateFeedXML(xmlContent, url)
Validate ==
    /\ pc = "validating"
    /\ validation' = validateFeedXML(xmlContent, fault)
    /\ calls' = [calls EXCEPT !.validate = @ + 1]
    /\ pc' = "validated"
    /\ UNCHANGED <<body, remote, changes, timer, xmlContent, fault, parsed, feed,
                   caught, response>>
    /\ UNCHANGED <<earlier, peer, page>>

\* if (!validation.isValid) return the report of the violations
RejectInvalid ==
    /\ pc = "validated"
    /\ ~validation.isValid
    /\ response' = InvalidResponse(validation)
    /\ pc' = "done"
    /\ UNCHANGED <<body, remote, changes, timer, xmlContent, fault, validation,
                   parsed, feed, calls, caught>>
    /\ UNCHANGED <<earlier, peer, page>>

\* variant: the parser is called whatever the validator said
CallParserUnguarded ==
    /\ pc = "validated"
    /\ calls' = [calls EXCEPT !.parse = @ + 1]
    /\ pc' = "parsing"
    /\ UNCHANGED <<body, remote, changes, timer, xmlContent, fault, validation,
                   parsed, feed, caught, response>>
    /\ UNCHANGED <<earlier, peer, page>>

\* new Parser(...) and the call of parser.parseURL(url)
CallParser ==
    /\ pc = "validated"
    /\ validation.isValid
    /\ calls' = [calls EXCEPT !.parse = @ + 1]
    /\ pc' = "parsing"
    /\ UNCHANGED <<body, remote, changes, timer, xmlContent, fault, validation,
                   parsed, feed, caught, response>>
    /\ UNCHANGED <<earlier, peer, page>>

\* the messages the parser rejects with because of the text it fetched
GrammarErrors ==
    {"Feed not recognized as RSS 1 or 2.", "Unexpected close tag Line: 404 Column: 7",
     "Unclosed root tag"}

\* what the parser made of this text in the earlier request: "feed",
\* "grammar" (a rejection because of the text), or none if it was not given
\* the text.  The parser is a function of the text it fetches.
ParserGave(text) ==
    IF earlier.ran /\ earlier.outcome # None /\ earlier.parsed = text
    THEN earlier.outcome ELSE None

\* parser.parseURL resolves: the parser has fetched what the URL serves now,
\* and found an rss or feed root in it
ParserResolves ==
    /\ pc = "parsing"
    /\ Includes(remote, "<rss") \/ Includes(remote, "<feed")
    /\ ParserGave(remote) # "grammar"
    /\ parsed' = remote
    /\ feed' \in IF ParserGave(remote) = "feed" THEN {earlier.feed} ELSE PostFeeds
    /\ pc' = "analysing"
    /\ UNCHANGED <<body, remote, changes, timer, xmlContent, fault, validation,
                   calls, caught, response>>
    /\ UNCHANGED <<earlier, peer, page>>

\* parser.parseURL rejects
ParserRejects ==
    /\ pc = "parsing"
    /\ \E message \in ParserErrors :
          /\ message \in GrammarErrors =>
                 /\ ParserGave(remote) # "feed"
                 /\ ParserGave(remote) = "grammar" => message = earlier.message
          /\ Catch("parse", message)
    /\ UNCHANGED <<body, remote, changes, timer, xmlContent, fault, validation,
                   parsed, feed, calls>>
    /\ UNCHANGED <<earlier, peer, page>>

\* the analysis stages and the report (lines 204-532)
Analyse ==
    /\ pc = "analysing"
    /\ calls' = [calls EXCEPT !.analyse = @ + 1]
    /\ IF AnalysisThrows(feed)
       THEN Catch("analysis", TypeErrorMessage)
       ELSE /\ response' = ValidResponse(xmlContent, feed)
            /\ pc' = "done"
            /\ UNCHANGED caught
    /\ UNCHANGED <<body, remote, changes, timer, xmlContent, fault, validation,
                   parsed, feed>>
    /\ UNCHANGED <<earlier, peer, page>>

\* the environment: the document behind the URL changes during the request
SourceChanges ==
    /\ pc \in {"fetching", "reading", "validating", "validated", "parsing"}
    /\ changes < MaxChanges
    /\ remote' \in PostDocs \ {remote}
    /\ changes' = changes + 1
    /\ UNCHANGED <<pc, body, timer, xmlContent, fault, validation, parsed, feed,
                   calls, caught, response>>
    /\ UNCHANGED <<earlier, peer, page>>

\* the same request is sent once more after POST has answered it: what the
\* first request read, parsed and answered is kept
Again ==
    /\ pc = "done"
    /\ ~earlier.ran
    /\ calls.fetch > 0
    /\ LET rejected == caught.at = "parse" /\ caught.message \in GrammarErrors
       IN  earlier' =
               [ran |-> TRUE, xmlContent |-> xmlContent,
                validated |-> calls.validate > 0,
                parsed |-> IF rejected THEN remote ELSE parsed,
                outcome |-> IF rejected THEN "grammar"
                            ELSE IF calls.analyse > 0 THEN "feed" ELSE None,
                message |-> caught.message, feed |-> feed, response |-> response]
    /\ pc' = "start"
    /\ changes' = 0
    /\ timer' = "unset"
    /\ xmlContent' = <<>>
    /\ validation' = NoValidation
    /\ parsed' = <<>>
    /\ feed' = NoFeed
    /\ calls' = NoCalls
    /\ caught' = NoError
    /\ response' = NoResponse
    /\ UNCHANGED <<body, remote, fault, peer, page>>

Init ==
    /\ pc = "start"
    /\ body \in Bodies
    /\ remote \in PostDocs
    /\ changes = 0
    /\ timer = "unset"
    /\ xmlContent = <<>>
    /\ fault \in {"none", "family"}
    /\ validation = NoValidation
    /\ parsed = <<>>
    /\ feed = NoFeed
    /\ calls = NoCalls
    /\ caught = NoError
    /\ response = NoResponse
    /\ earlier = NoEarlier
    /\ peer = NoPeer
    /\ page = NoPage

Next ==
    \/ ReadBody
    \/ FetchResponds
    \/ FetchFails
    \/ ReadText
    \/ ReadTextFails
    \/ TimerFires
    \/ Validate
    \/ RejectInvalid
    \/ CallParser
    \/ ParserResolves
    \/ ParserRejects
    \/ Analyse
    \/ SourceChanges

Spec == Init /\ [][Next]_vars

\* two requests for the same URL, one after the other
NextTwice == Next \/ Again

SpecTwice == Init /\ [][NextTwice]_vars

----------------------------------------------------------------------------
(* Two invocations of POST at once.  The runtime is single-threaded: one   *)
(* invocation runs until it awaits, then the other may run.  The variables *)
(* of the module are those of the invocation that is running; peer holds   *)
(* those of the invocation that is suspended.  What the URL serves is the  *)
(* environment of both.                                                    *)

\* everything POST declares (lines 125-531): the variables of the invocation
\* that is running
Locals ==
    [pc |-> pc, body |-> body, timer |-> timer, xmlContent |-> xmlContent,
     fault |-> fault, validation |-> validation, parsed |-> parsed, feed |-> feed,
     calls |-> calls, caught |-> caught, response |-> response]

\* the positions at which POST awaits (lines 125, 150, 161, 172, 202), and
\* its end
Awaits == {"start", "fetching", "reading", "validating", "parsing", "done"}

\* variant: xmlContent is declared at module level, so a resumed invocation
\* finds the text the other invocation fetched meanwhile
ResumedSharedText(own, running) ==
    [own EXCEPT !.xmlContent = IF running.xmlContent # <<>>
                               THEN running.xmlContent ELSE @]

\* what a resumed invocation finds in its variables: they are declared with
\* const and let inside POST, so each invocation has its own
Resumed(own, running) == own

\* the running invocation awaits and the other one is resumed
Switch ==
    /\ peer.id # 0
    /\ pc \in Awaits
    /\ peer.own.pc # "done"
    /\ peer' = [id |-> 3 - peer.id, own |-> Locals]
    /\ LET mine == Resumed(peer.own, Locals)
       IN  /\ pc' = mine.pc
           /\ body' = mine.body
           /\ timer' = mine.timer
           /\ xmlContent' = mine.xmlContent
           /\ fault' = mine.fault
           /\ validation' = mine.validation
           /\ parsed' = mine.parsed
           /\ feed' = mine.feed
           /\ calls' = mine.calls
           /\ caught' = mine.caught
           /\ response' = mine.response
    /\ UNCHANGED <<remote, changes, earlier, page>>

\* the bodies of the two requests
PairBodies == {"null", "{url: 'feed.xml'}", "{url: 'http://feed'}"}

InitPair ==
    /\ pc = "start"
    /\ body \in PairBodies
    /\ remote \in PostDocs
    /\ changes = 0
    /\ timer = "unset"
    /\ xmlContent = <<>>
    /\ fault \in {"none", "family"}
    /\ validation = NoValidation
    /\ parsed = <<>>
    /\ feed = NoFeed
    /\ calls = NoCalls
    /\ caught = NoError
    /\ response = NoResponse
    /\ earlier = NoEarlier
    /\ \E b \in PairBodies :
          peer = [id |-> 2,
                  own |-> [pc |-> "start", body |-> b, timer |-> "unset",
                           xmlContent |-> <<>>, fault |-> "none",
                           validation |-> NoValidation, parsed |-> <<>>,
                           feed |-> NoFeed, calls |-> NoCalls, caught |-> NoError,
                           response |-> NoResponse]]
    /\ page = NoPage

NextPair == Next \/ Switch

SpecPair == InitPair /\ [][NextPair]_vars

----------------------------------------------------------------------------
(* The page (Home) whose form sends the request to POST.  page.at is the   *)
(* position of handleSubmit: "idle" (not running), "awaiting" (await       *)
(* fetch), "reading" (await response.json()).                              *)

\* how often the form may be submitted
MaxSubmits == 2

\* what may stand in the input field
PageUrls == {"", "  ", "feed.xml", "http://feed"}

\* !url.trim()
IsBlank(url) == url \in {"", "  "}

\* JSON.stringify({ url })
Stringify(url) == "{url: '" \o url \o "'}"

\* the record handleSubmit shows when the request throws (lines 40-46)
Fallback ==
    [isValid |-> FALSE, availableFields |-> <<>>, hasFeaturedImage |-> FALSE,
     contentType |-> "unknown", error |-> "An unexpected error occurred"]

\* onChange of the input field, which is disabled while loading
TypeUrl ==
    /\ page.at = "idle"
    /\ ~page.loading
    /\ \E url \in PageUrls \ {page.url} : page' = [page EXCEPT !.url = url]
    /\ UNCHANGED <<pc, body, remote, changes, timer, xmlContent, fault, validation,
                   parsed, feed, calls, caught, response, earlier, peer>>

\* handleSubmit up to its first await (lines 21-35): nothing happens for a
\* blank url; otherwise loading and result are set and the request is sent,
\* which starts an invocation of POST
Submit ==
    /\ page.at = "idle"
    /\ ~page.loading
    /\ page.submits < MaxSubmits
    /\ IF IsBlank(page.url)
       THEN /\ page' = [page EXCEPT !.submits = @ + 1]
            /\ UNCHANGED <<pc, body, changes, timer, xmlContent, validation, parsed,
                           feed, calls, caught, response>>
       ELSE /\ page' = [page EXCEPT !.submits = @ + 1, !.loading = TRUE,
                                     !.result = NoResult, !.at = "awaiting"]
            /\ body' = Stringify(page.url)
            /\ pc' = "start"
            /\ changes' = 0
            /\ timer' = "unset"
            /\ xmlContent' = <<>>
            /\ validation' = NoValidation
            /\ parsed' = <<>>
            /\ feed' = NoFeed
            /\ calls' = NoCalls
            /\ caught' = NoError
            /\ response' = NoResponse
    /\ UNCHANGED <<remote, fault, earlier, peer>>

\* await fetch(...) resolves with the response POST returned
ResponseArrives ==
    /\ page.at = "awaiting"
    /\ pc = "done"
    /\ page' = [page EXCEPT !.at = "reading"]
    /\ UNCHANGED <<pc, body, remote, changes, timer, xmlContent, fault, validation,
                   parsed, feed, calls, caught, response, earlier, peer>>

\* await fetch(...) rejects (a network error): catch, then finally
NetworkError ==
    /\ page.at = "awaiting"
    /\ page' = [page EXCEPT !.result = Shown(Fallback), !.loading = FALSE,
                            !.at = "idle"]
    /\ UNCHANGED <<pc, body, remote, changes, timer, xmlContent, fault, validation,
                   parsed, feed, calls, caught, response, earlier, peer>>

\* await response.json() resolves: setResult(analysis), then finally
ReadJson ==
    /\ page.at = "reading"
    /\ page' = [page EXCEPT !.result = Shown(response.json), !.loading = FALSE,
                            !.at = "idle"]
    /\ UNCHANGED <<pc, body, remote, changes, timer, xmlContent, fault, validation,
                   parsed, feed, calls, caught, response, earlier, peer>>

\* variant: the body cannot be read and loading is not reset
JsonUnreadableNoFinally ==
    /\ page.at = "reading"
    /\ page' = [page EXCEPT !.result = Shown(Fallback), !.at = "idle"]
    /\ UNCHANGED <<pc, body, remote, changes, timer, xmlContent, fault, validation,
                   parsed, feed, calls, caught, response, earlier, peer>>

\* await response.json() rejects (the body that arrived is no JSON): catch,
\* then finally
JsonUnreadable ==
    /\ page.at = "reading"
    /\ page' = [page EXCEPT !.result = Shown(Fallback), !.loading = FALSE,
                            !.at = "idle"]
    /\ UNCHANGED <<pc, body, remote, changes, timer, xmlContent, fault, validation,
                   parsed, feed, calls, caught, response, earlier, peer>>

InitPage ==
    /\ pc = "no request"
    /\ body = ""
    /\ remote \in PostDocs
    /\ changes = 0
    /\ timer = "unset"
    /\ xmlContent = <<>>
    /\ fault = "none"
    /\ validation = NoValidation
    /\ parsed = <<>>
    /\ feed = NoFeed
    /\ calls = NoCalls
    /\ caught = NoError
    /\ response = NoResponse
    /\ earlier = NoEarlier
    /\ peer = NoPeer
    /\ page = [NoPage EXCEPT !.at = "idle"]

NextPage ==
    \/ Next
    \/ TypeUrl
    \/ Submit
    \/ ResponseArrives
    \/ NetworkError
    \/ ReadJson
    \/ JsonUnreadable

\* every promise handleSubmit awaits settles: POST goes on until it has
\* answered, the answer arrives unless the network fails first, and the body
\* is read or found unreadable
SpecPage ==
    /\ InitPage
    /\ [][NextPage]_vars
    /\ WF_vars(Next)
    /\ WF_vars(ResponseArrives)
    /\ WF_vars(ReadJson \/ JsonUnreadable)

----------------------------------------------------------------------------
(* validateFeedXML alone, over every generated text and fault point.       *)

InitValidator ==
    /\ pc = "validating"
    /\ body = "{url: 'http://feed'}"
    /\ xmlContent \in Docs
    /\ remote = xmlContent
    /\ changes = 0
    /\ timer = "cleared"
    /\ fault \in FaultPoints
    /\ validation = NoValidation
    /\ parsed = <<>>
    /\ feed = NoFeed
    /\ calls = [NoCalls EXCEPT !.fetch = 1]
    /\ caught = NoError
    /\ response = NoResponse
    /\ earlier = NoEarlier
    /\ peer = NoPeer
    /\ page = NoPage

NextValidator == Validate \/ RejectInvalid

SpecValidator == InitValidator /\ [][NextValidator]_vars

----------------------------------------------------------------------------
(* The analysis alone, over feeds whose items vary in their image signals. *)

ImageItems ==
    { [NoItem EXCEPT !.mediaContent = mc, !.mediaThumbnail = mt, !.enclosure = en,
                     !.image = im, !.description = de, !.contentEncoded = ce,
                     !.content = co] :
        mc \in {NoMedia, MediaObject("http://x/a.jpg")},
        mt \in {NoMedia, MediaObject("http://x/t1.jpg")},
        en \in {NoEnclosure, Enclosure("image/jpeg", "http://x/e.jpg"),
                Enclosure("audio/mpeg", "http://x/e.mp3")},
        im \in BOOLEAN,
        de \in {Undefined, Plain(100), WithImg("http://x/d.jpg"), Object},
        ce \in {Undefined, Plain(100), WithImg("http://x/c.jpg")},
        co \in {Undefined, Plain(100), WithImg("http://x/d.jpg"),
                WithOg("http://x/d.jpg")} }

\* the items that may follow the first one
LaterItems ==
    { NoItem, PlainItem, ImageItem, ObjectItem,
      [NoItem EXCEPT !.mediaContent = MediaObject("http://x/a.jpg")],
      [NoItem EXCEPT !.image = TRUE],
      [NoItem EXCEPT !.content = WithImg("http://x/d.jpg")],
      [NoItem EXCEPT !.contentEncoded = WithImg("http://x/c.jpg")],
      [NoItem EXCEPT !.mediaThumbnail = MediaObject("http://x/t2.jpg")],
      [NoItem EXCEPT !.description = WithOg("http://x/d.jpg")],
      [NoItem EXCEPT !.enclosure = Enclosure("image/png", "http://x/e.png")] }

ImageFeeds ==
    {NoFeed} \cup
    { FeedOf(<<first>> \o later) :
        first \in ImageItems, later \in SeqsUpTo(LaterItems, MaxItems - 1) }

InitImages ==
    /\ pc = "analysing"
    /\ body = "{url: 'http://feed'}"
    /\ xmlContent \in {ValidRss, ThumbRss}
    /\ remote = xmlContent
    /\ changes = 0
    /\ timer = "cleared"
    /\ fault = "none"
    /\ validation = [isValid |-> TRUE, errors |-> <<>>]
    /\ parsed = xmlContent
    /\ feed \in ImageFeeds
    /\ calls = [fetch |-> 1, validate |-> 1, parse |-> 1, analyse |-> 0]
    /\ caught = NoError
    /\ response = NoResponse
    /\ earlier = NoEarlier
    /\ peer = NoPeer
    /\ page = NoPage

NextImages == Analyse

SpecImages == InitImages /\ [][NextImages]_vars

----------------------------------------------------------------------------
(* The analysis alone, over feeds whose items vary in their content        *)
(* length, their dates, their identity keys and their fields, and over     *)
(* accepted texts that vary in their feed-type markers.                    *)

\* most items of a generated feed of dated items
MaxDated == 3
\* most items of a generated feed that posts once a day
MaxDaily == 5
\* most items of a generated feed of keyed items
MaxKeyed == 3

\* first items whose content fields vary in presence and stripped length
ContentItems ==
    { [NoItem EXCEPT !.contentEncoded = ce, !.content = co, !.description = de] :
        ce \in {Undefined, Plain(0), Plain(500), Plain(501), Markup(520, 20),
                Markup(521, 20)},
        co \in {Undefined, Plain(100), Plain(600)},
        de \in {Undefined, Plain(30), Markup(20, 20)} }

ContentFeeds ==
    { FeedOf(<<first>> \o later) :
        first \in ContentItems,
        later \in {<<>>, <<[NoItem EXCEPT !.content = Plain(600)]>>} }

\* the pubDate values: none, two that do not parse, and minutes that
\* straddle the 0.1, 1, 7 and 30 day thresholds
DateValues ==
    {NoDate, Unparsable("yesterday"), Unparsable("soon")} \cup
    {Date(t) : t \in {0, 100, 144, 1440, 2000, 10080, 43200, 50000}}

DatedFeeds ==
    { FeedOf([i \in DOMAIN ds |-> [NoItem EXCEPT !.pubDate = ds[i]]]) :
        ds \in SeqsUpTo(DateValues, MaxDated) }

\* n items, one every gap minutes, newest first
SpacedFeed(n, gap) ==
    FeedOf([i \in 1..n |-> [NoItem EXCEPT !.pubDate = Date((n - i) * gap)]])

\* feeds that post every tenth of a day, every day, every 2.8 days
DailyFeeds == {SpacedFeed(n, gap) : n \in 2..MaxDaily, gap \in {144, 1440, 4032}}

KeyedFeeds ==
    { FeedOf([i \in DOMAIN ks |-> [NoItem EXCEPT !.guid = ks[i][1],
                                                  !.link = ks[i][2]]]) :
        ks \in SeqsUpTo({"", "g1", "g2"} \X {"", "l1", "g1"}, MaxKeyed) }

\* an item on which exactly one field is present
WithField(name) ==
    CASE name = "title"           -> [NoItem EXCEPT !.title = "A"]
      [] name = "link"            -> [NoItem EXCEPT !.link = "http://x/a"]
      [] name = "content"         -> [NoItem EXCEPT !.content = Plain(100)]
      [] name = "contentSnippet"  -> [NoItem EXCEPT !.contentSnippet = "snip"]
      [] name = "description"     -> [NoItem EXCEPT !.description = Plain(100)]
      [] name = "categories"      -> [NoItem EXCEPT !.categories = <<"news">>]
      [] name = "pubDate"         -> [NoItem EXCEPT !.pubDate = Date(0)]
      [] name = "creator"         -> [NoItem EXCEPT !.creator = "me"]
      [] name = "author"          -> [NoItem EXCEPT !.author = "me"]
      [] name = "guid"            -> [NoItem EXCEPT !.guid = "g1"]
      [] name = "content:encoded" -> [NoItem EXCEPT !.contentEncoded = Plain(100)]
      [] name = "media:content"   ->
            [NoItem EXCEPT !.mediaContent = MediaObject("http://x/a.jpg")]
      [] name = "media:thumbnail" ->
            [NoItem EXCEPT !.mediaThumbnail = MediaObject("http://x/t1.jpg")]
      [] name = "enclosure"       ->
            [NoItem EXCEPT !.enclosure = Enclosure("audio/mpeg", "http://x/e.mp3")]
      [] name = "image"           -> [NoItem EXCEPT !.image = TRUE]

\* an item on which every field is present
FullItem ==
    [title |-> "A", link |-> "http://x/a", content |-> Plain(100),
     contentSnippet |-> "snip", description |-> Plain(100),
     categories |-> <<"news">>, pubDate |-> Date(0), creator |-> "me",
     author |-> "me", guid |-> "g1", contentEncoded |-> Plain(100),
     mediaContent |-> MediaObject("http://x/a.jpg"),
     mediaThumbnail |-> MediaObject("http://x/t1.jpg"),
     enclosure |-> Enclosure("audio/mpeg", "http://x/e.mp3"), image |-> TRUE]

FieldItems ==
    {NoItem, FullItem, [NoItem EXCEPT !.content = Plain(0)]} \cup
    {WithField(FieldOrder[i]) : i \in 1..Len(FieldOrder)}

FieldFeeds ==
    { [title |-> t, link |-> l, description |-> d, categories |-> c, items |-> is] :
        t \in {"", "Feed"}, l \in {"", "http://x"}, d \in {"", "about"},
        c \in {<<>>, <<"news">>},
        is \in {<<>>} \cup
               { <<first>> \o later :
                   first \in FieldItems, later \in {<<>>, <<FullItem>>} } }

AnalysisFeeds ==
    ContentFeeds \cup DatedFeeds \cup DailyFeeds \cup KeyedFeeds \cup FieldFeeds

\* accepted texts that differ in their rss, feed and rdf:RDF markers
TypeDocs ==
    { x \in
        { Flatten(p \o <<"channel", "title", "link", "item_t", "channel_c">> \o e) :
            p \in {<<"rss_v">>, <<"rss_92">>, <<"rss_uq">>, <<"rss_nv">>, <<"xml">>,
                   <<"xml", "rdf">>, <<"xml", "rss_uq", "rss_92">>},
            e \in {<<>>, <<"feed_a">>, <<"rdf">>, <<"feed_a", "rdf">>, <<"rss_92">>} }
        \cup
        { Flatten(p \o <<"title", "id", "updated", "entry_t">> \o e) :
            p \in {<<"feed_a">>, <<"xml", "feed_a">>, <<"feed_p">>},
            e \in {<<>>, <<"rdf">>} } :
      validateFeedXML(x, "none").isValid }

InitAnalysis ==
    /\ pc = "analysing"
    /\ body = "{url: 'http://feed'}"
    /\ \/ feed \in AnalysisFeeds /\ xmlContent = ValidRss
       \/ feed = FeedOf(<<PlainItem>>) /\ xmlContent \in TypeDocs
    /\ remote = xmlContent
    /\ changes = 0
    /\ timer = "cleared"
    /\ fault = "none"
    /\ validation = [isValid |-> TRUE, errors |-> <<>>]
    /\ parsed = xmlContent
    /\ calls = [fetch |-> 1, validate |-> 1, parse |-> 1, analyse |-> 0]
    /\ caught = NoError
    /\ response = NoResponse
    /\ earlier = NoEarlier
    /\ peer = NoPeer
    /\ page = NoPage

NextAnalysis == Analyse

SpecAnalysis == InitAnalysis /\ [][NextAnalysis]_vars

----------------------------------------------------------------------------
(* The claims.                                                             *)

\* the violations, in order, each after the first preceded by "; "
RECURSIVE ViolationsJoined(_)
ViolationsJoined(errs) ==
    IF errs = <<>> THEN ""
    ELSE IF Len(errs) = 1 THEN errs[1]
    ELSE ViolationsJoined(SubSeq(errs, 1, Len(errs) - 1)) \o "; " \o errs[Len(errs)]

\* C1: once validateFeedXML has returned isValid=false for the fetched text,
\* the parser and the analysis are never invoked for the request, and the
\* answer is status 200 with isValid=false, no available fields, no featured
\* image, contentType 'unknown', validationErrors equal to the violation
\* list in order, an error message holding the violations joined with '; ',
\* and none of title, lastUpdate, itemCount, feedType, postFrequency,
\* imageSources.
C1_RejectedTextIsNeverParsed ==
    (calls.validate > 0 /\ ~validation.isValid) =>
        /\ calls.parse = 0
        /\ calls.analyse = 0
        /\ pc \in {"validated", "done"}
        /\ pc = "done" =>
            /\ response.status = 200
            /\ response.json.isValid = FALSE
            /\ response.json.availableFields = <<>>
            /\ response.json.hasFeaturedImage = FALSE
            /\ response.json.contentType = "unknown"
            /\ response.json.validationErrors = validation.errors
            /\ response.json.error =
                   "Feed validation failed: " \o ViolationsJoined(validation.errors)
            /\ DOMAIN response.json \cap
                   {"title", "lastUpdate", "itemCount", "feedType", "postFrequency",
                    "imageSources"} = {}

\* C1 witness: a text with several violations was rejected and answered
C1_Witness ==
    /\ pc = "done"
    /\ calls.validate = 1
    /\ ~validation.isValid
    /\ Len(validation.errors) > 1
    /\ response.status = 200
    /\ response.json.validationErrors = validation.errors

\* C2: on every return path of validateFeedXML (gate rejection, normal
\* completion, internal exception) isValid is true exactly when the
\* violation list is empty, and no exception leaves validateFeedXML.
C2_ValidIffNoViolations ==
    calls.validate > 0 =>
        /\ validation.isValid <=> (validation.errors = <<>>)
        /\ caught = NoError
        /\ pc \in {"validated", "done"}

\* C2 witness: an internal exception struck after violations were recorded
C2_Witness ==
    /\ pc = "validated"
    /\ fault = "filesize"
    /\ Len(validation.errors) > 1
    /\ ~validation.isValid

\* the first lexeme of the text that is not white space ("" if there is none)
FirstMarkup(x) ==
    LET I == {i \in 1..Len(x) : x[i] # "ws"}
    IN  IF I = {} THEN "" ELSE x[CHOOSE i \in I : \A j \in I : i <= j]

\* the trimmed text starts with an XML declaration, <rss or <feed
StartsLikeAFeed(x) ==
    FirstMarkup(x) \in {"<?xml>", "<rss version>", "<rss version=0.92>", "<rss>",
                        "<rss version=2.0 unquoted>",
                        "<feed xmlns=Atom>", "<feed>"}

\* C3: a text whose trimmed form does not start with an XML declaration,
\* <rss or <feed is invalid with exactly one violation; no RSS, Atom,
\* not-recognized or filesize rule adds a violation.
C3_GateStopsTheRules ==
    (calls.validate > 0 /\ ~StartsLikeAFeed(xmlContent)) =>
        /\ ~validation.isValid
        /\ Len(validation.errors) = 1
        /\ validation.errors[1] \in
               {"Feed does not appear to be valid XML",
                "XML validation error: internal error"}
        /\ fault = "none" =>
               validation.errors = <<"Feed does not appear to be valid XML">>

\* C3 witness: a text that fails the gate although it holds a channel with
\* violations of the RSS rules and a filesize attribute
C3_Witness ==
    /\ pc = "validated"
    /\ fault = "none"
    /\ xmlContent[1] = "<html>"
    /\ Includes(xmlContent, "<channel>")
    /\ Includes(xmlContent, "filesize=")
    /\ validation.errors = <<"Feed does not appear to be valid XML">>


\* position k of the text lies inside an element opened by open and not yet
\* closed by close
Inside(x, k, open, close) ==
    \E a \in 1..(k - 1) : x[a] = open /\ \A b \in a..k : x[b] # close

\* the positions between the first <channel> and the first </channel> after it
ChannelRegion(x) ==
    LET opens == {i \in 1..Len(x) : x[i] = "<channel>"}
        first == IF opens = {} THEN 0 ELSE CHOOSE i \in opens : \A j \in opens : i <= j
        closes == {j \in 1..Len(x) : x[j] = "</channel>" /\ first # 0 /\ j > first}
        last == IF closes = {} THEN 0 ELSE CHOOSE j \in closes : \A l \in closes : j <= l
    IN  IF last = 0 THEN {} ELSE (first + 1)..(last - 1)

\* an RSS 2.0 document: a feed-like text whose <rss> tag declares version 2.0
IsRss20Document(x) ==
    StartsLikeAFeed(x) /\ \E i \in 1..Len(x) : x[i] = "<rss version>"

\* the channel has a <title> child with text in it, and a <link> child
ChannelHasTitleAndLink(x) ==
    /\ \E k \in ChannelRegion(x) :
          /\ ~Inside(x, k, "<item>", "</item>")
          /\ x[k] = "<title>" /\ x[k + 1] = "text"
    /\ \E k \in ChannelRegion(x) :
          ~Inside(x, k, "<item>", "</item>") /\ x[k] = "<link>"

\* there is an item, and every item holds a <title> or a <description>
EveryItemHasTitleOrDescription(x) ==
    /\ \E a \in 1..Len(x) : x[a] = "<item>"
    /\ \A a \in 1..Len(x) :
          x[a] = "<item>" =>
              \E b \in (a + 1)..Len(x) :
                  /\ x[b] \in {"<title>", "<description>"}
                  /\ \A c \in a..b : x[c] # "</item>"

\* what C4 asks of a document
C4_Precondition(x) ==
    /\ IsRss20Document(x)
    /\ ChannelHasTitleAndLink(x)
    /\ EveryItemHasTitleOrDescription(x)

\* no <media:content> tag carries a filesize attribute
NoFilesizeAttribute(x) == \A i \in 1..Len(x) : x[i] # "<media:content filesize>"

\* the first <title> inside the channel, be it the channel's own or an
\* item's, has text in it
FirstTitleInChannelFilled(x) ==
    \A k \in ChannelRegion(x) :
        (x[k] = "<title>" /\ \A l \in ChannelRegion(x) : l < k => x[l] # "<title>")
            => x[k + 1] = "text"

Occurrences(errs, message) == Cardinality({i \in 1..Len(errs) : errs[i] = message})

\* the text is an Atom text for the validator: it passes the gate, holds no
\* RSS marker and holds <feed with the Atom namespace declaration
IsAtomText(x) ==
    /\ StartsLikeAFeed(x)
    /\ \A i \in 1..Len(x) :
          x[i] \notin {"<rss version>", "<rss version=0.92>", "<rss>", "<channel>"}
    /\ \E i \in 1..Len(x) : x[i] = "<feed xmlns=Atom>"

\* the feed has the element tag as a child (not only inside an entry)
FeedHasTopLevel(x, tag) ==
    \E k \in 1..Len(x) : x[k] = tag /\ ~Inside(x, k, "<entry>", "</entry>")

\* C5 as stated: for an Atom text, the missing-element message of <title>,
\* <id>, <updated> is in the violation list exactly once if the feed lacks
\* that element at its top level and not at all otherwise, likewise for
\* <entry> anywhere in the text, and the text is invalid if any is missing.
C5_AsStated ==
    (calls.validate > 0 /\ fault = "none" /\ IsAtomText(xmlContent)) =>
        /\ Occurrences(validation.errors,
                       "Atom feed missing required <title> element in <feed>")
             = (IF FeedHasTopLevel(xmlContent, "<title>") THEN 0 ELSE 1)
        /\ Occurrences(validation.errors,
                       "Atom feed missing required <id> element in <feed>")
             = (IF FeedHasTopLevel(xmlContent, "<id>") THEN 0 ELSE 1)
        /\ Occurrences(validation.errors,
                       "Atom feed missing required <updated> element in <feed>")
             = (IF FeedHasTopLevel(xmlContent, "<updated>") THEN 0 ELSE 1)
        /\ Occurrences(validation.errors,
                       "Atom feed should contain at least one <entry> element")
             = (IF \E k \in 1..Len(xmlContent) : xmlContent[k] = "<entry>"
                THEN 0 ELSE 1)
        /\ (\/ ~FeedHasTopLevel(xmlContent, "<title>")
            \/ ~FeedHasTopLevel(xmlContent, "<id>")
            \/ ~FeedHasTopLevel(xmlContent, "<updated>")
            \/ \A k \in 1..Len(xmlContent) : xmlContent[k] # "<entry>")
           => ~validation.isValid


\* the request names a syntactically valid absolute URL
NamesAValidUrl == body = "{url: 'http://feed'}"

\* the report of a failure: invalid, nothing analysed, and an error text
IsFailureReport(json) ==
    /\ json.isValid = FALSE
    /\ json.availableFields = <<>>
    /\ json.hasFeaturedImage = FALSE
    /\ json.contentType = "unknown"
    /\ json.error # ""

\* C6: a request with a syntactically valid absolute URL is always answered
\* with status 200; a fetch failure (timeout, unreachable host, HTTP error
\* status), a structural rejection, a parser failure or an exception during
\* the analysis each give a 200 report with isValid=false, no available
\* fields, no featured image, contentType 'unknown' and a non-empty error
\* text; POST never throws, so until it has answered it can take a step.
C6_FailuresAreAnsweredWith200 ==
    NamesAValidUrl =>
        /\ pc = "done" =>
            /\ response.status = 200
            /\ (caught # NoError \/ (calls.validate > 0 /\ ~validation.isValid))
                   => IsFailureReport(response.json)
        /\ caught # NoError => pc = "done"
        /\ pc # "done" => ENABLED Next

\* C6 witness: an exception raised during the analysis was answered
C6_Witness ==
    /\ NamesAValidUrl
    /\ pc = "done"
    /\ caught.at = "analysis"
    /\ calls.analyse = 1
    /\ response.status = 200
    /\ IsFailureReport(response.json)

\* C7 as stated: a request whose url is absent, is no string or is no valid
\* absolute URL is answered with status 400, and neither fetch nor
\* validation nor parsing is started for it.
C7_AsStated ==
    ~NamesAValidUrl =>
        /\ calls = NoCalls
        /\ pc = "done" => response.status = 400

\* what the parser rejects with when it cannot parse the text it fetched
ParseFailures ==
    {"Feed not recognized as RSS 1 or 2.", "Unexpected close tag Line: 404 Column: 7",
     "Unclosed root tag"}

\* C8 as stated: when the validator accepted the text and the parser then
\* fails, the answer is a report with isValid=false that no fetch failure
\* and no structural rejection could have produced.
C8_AsStated ==
    (pc = "done" /\ caught.at = "parse" /\ caught.message \in ParseFailures) =>
        /\ response.status = 200
        /\ response.json.isValid = FALSE
        /\ "validationErrors" \notin DOMAIN response.json
        /\ \A message \in FetchErrors \cup {TimedOutError} :
               response # CatchResponse(message)

\* C9 as stated: the ParsedFeed the analysis reads is the parse of the raw
\* text the validator accepted and the raw-text scans inspect, so every
\* valid report is about validated content.
C9_AsStated ==
    /\ (pc = "analysing" \/ calls.analyse > 0) => parsed = xmlContent
    /\ (pc = "done" /\ response.status = 200 /\ response.json.isValid) =>
           /\ parsed = xmlContent
           /\ validateFeedXML(parsed, "none").isValid

\* the best-available content field holds an <img tag
ImgInBestAvailable(item) ==
    IF item.contentEncoded.kind # "undefined" THEN item.contentEncoded.img
    ELSE IF item.content.kind # "undefined" THEN item.content.img
    ELSE item.description.img

\* the signals both C10 and the code count
SharedImageSignal(item) ==
    \/ item.mediaContent.kind # "undefined"
    \/ item.mediaThumbnail.kind # "undefined"
    \/ item.enclosure.kind # "undefined"
          /\ item.enclosure.type \in {"image/jpeg", "image/png"}
    \/ item.description.img
    \/ item.contentEncoded.img

\* C10 as stated: hasFeaturedImage is true iff some item has the
\* media-content extension, the media-thumbnail extension, an image/
\* enclosure, an <img tag in its best-available content field, or an <img
\* tag in its description or full-content field.
C10_AsStated ==
    (pc = "done" /\ response.json.isValid) =>
        (response.json.hasFeaturedImage <=>
            \E i \in 1..Len(feed.items) :
                SharedImageSignal(feed.items[i]) \/ ImgInBestAvailable(feed.items[i]))

\* C10 (amended): hasFeaturedImage is true iff some item has the
\* media-content extension, the media-thumbnail extension, an image/
\* enclosure, the image field, or an <img tag in its description or in its
\* full-content field; an <img tag in the content field alone does not
\* count.
C10_FeaturedImageFlag ==
    (pc = "done" /\ response.json.isValid) =>
        (response.json.hasFeaturedImage <=>
            \E i \in 1..Len(feed.items) :
                SharedImageSignal(feed.items[i]) \/ feed.items[i].image)

\* C10 witness: the flag was raised by the full-content field of the second
\* item alone
C10_Witness ==
    /\ pc = "done"
    /\ response.json.isValid
    /\ response.json.hasFeaturedImage
    /\ Len(feed.items) = 2
    /\ ~SharedImageSignal(feed.items[1]) /\ ~feed.items[1].image
    /\ ~feed.items[2].image
    /\ feed.items[2].contentEncoded.img
    /\ feed.items[2].mediaContent.kind = "undefined"
    /\ feed.items[2].mediaThumbnail.kind = "undefined"
    /\ feed.items[2].enclosure.kind = "undefined"
    /\ ~feed.items[2].description.img

----------------------------------------------------------------------------
(* Claims C11-C20.                                                         *)

\* the sample image URLs of a report (none when the key is left out)
SampleUrls(json) ==
    IF "imageResolutions" \in DOMAIN json
    THEN [i \in 1..Len(json.imageResolutions) |-> json.imageResolutions[i].url]
    ELSE <<>>

\* the URLs of the <media:thumbnail> tags of the text, in document order
RECURSIVE ThumbnailTagUrls(_)
ThumbnailTagUrls(x) ==
    IF x = <<>> THEN <<>>
    ELSE (IF Head(x) = "<media:thumbnail url=t1>" THEN <<"http://x/t1.jpg">>
          ELSE IF Head(x) = "<media:thumbnail url=t2>" THEN <<"http://x/t2.jpg">>
          ELSE <<>>) \o ThumbnailTagUrls(Tail(x))

\* the image URLs one item offers, in the order the analyzer looks at them
ItemUrls(item) ==
    LET best == IF item.contentEncoded.kind # "undefined" THEN item.contentEncoded
                ELSE IF item.content.kind # "undefined" THEN item.content
                ELSE item.description
        one(u) == IF u # "" THEN <<u>> ELSE <<>>
    IN  one(item.mediaContent.url) \o one(item.mediaThumbnail.url) \o
        (IF item.enclosure.type \in {"image/jpeg", "image/png"}
         THEN one(item.enclosure.url) ELSE <<>>) \o
        (IF best.img THEN one(best.src) ELSE <<>>)

\* every image URL in the order of encounter: the text first, then the items
RECURSIVE EncounteredUrls(_)
EncounteredUrls(items) ==
    IF items = <<>> THEN <<>>
    ELSE ItemUrls(Head(items)) \o EncounteredUrls(Tail(items))

\* the first occurrence of each member of seq, in the order of seq
RECURSIVE FirstDistinct(_, _)
FirstDistinct(seq, seen) ==
    IF seq = <<>> THEN <<>>
    ELSE IF Head(seq) \in seen THEN FirstDistinct(Tail(seq), seen)
    ELSE <<Head(seq)>> \o FirstDistinct(Tail(seq), seen \cup {Head(seq)})

\* C11 as stated: in every valid report the sample image URL list has at
\* most 2 entries, holds no URL twice, and consists of the first distinct
\* image URLs in the order of encounter (the media:thumbnail tags of the raw
\* text first, then the items in document order).
C11_AsStated ==
    (pc = "done" /\ response.status = 200 /\ response.json.isValid) =>
        LET urls == SampleUrls(response.json)
            distinct == FirstDistinct(ThumbnailTagUrls(xmlContent)
                                      \o EncounteredUrls(feed.items), {})
        IN  /\ Len(urls) <= 2
            /\ \A i, j \in 1..Len(urls) : urls[i] = urls[j] => i = j
            /\ urls = SubSeq(distinct, 1, IF Len(distinct) < 2 THEN Len(distinct) ELSE 2)

\* POST has answered with a valid report
ValidReport == pc = "done" /\ response.status = 200 /\ response.json.isValid

\* a text field is present: a string that is not empty
TextPresent(v) == v.kind = "string" /\ v.chars > 0

\* the length, markup tags removed, of the text the first item is classified
\* by: its full-content extension if present, else its content, else its
\* description, else the empty string
ClassifiedLength(item) ==
    IF TextPresent(item.contentEncoded)
    THEN item.contentEncoded.chars - item.contentEncoded.markup
    ELSE IF TextPresent(item.content) THEN item.content.chars - item.content.markup
    ELSE IF TextPresent(item.description)
    THEN item.description.chars - item.description.markup
    ELSE 0

\* C12: contentType is computed from the first item only, from its
\* full-content extension if present (a non-empty string), else content,
\* else description, else the empty string: with L the length of that text
\* without its markup tags, contentType is 'full' when L > 500, 'excerpt'
\* when 0 < L <= 500, and 'unknown' when L = 0 or the feed has no items.
C12_ContentType ==
    ValidReport =>
        IF feed.items = <<>> THEN response.json.contentType = "unknown"
        ELSE LET L == ClassifiedLength(feed.items[1])
             IN  /\ L > 500 => response.json.contentType = "full"
                 /\ (0 < L /\ L <= 500) => response.json.contentType = "excerpt"
                 /\ L = 0 => response.json.contentType = "unknown"

\* C12 witness: a first item whose full-content text is exactly 500
\* characters long once its 20 characters of markup are removed, followed by
\* a longer item, was classified as an excerpt
C12_Witness ==
    /\ ValidReport
    /\ Len(feed.items) = 2
    /\ feed.items[1].contentEncoded = Markup(520, 20)
    /\ feed.items[1].content = Plain(600)
    /\ feed.items[2].content = Plain(600)
    /\ response.json.contentType = "excerpt"

\* the times of the pubDates of the items that parse
ParsableTimes(items) ==
    {items[i].pubDate.time : i \in {j \in 1..Len(items) : items[j].pubDate.time # NaN}}

\* C13: lastUpdate is the formatted maximum of the successfully parsed
\* pubDate values over all items when at least one item's pubDate parses;
\* otherwise the first item's raw pubDate string verbatim when the first
\* item carries one; otherwise null.
C13_LastUpdate ==
    ValidReport =>
        LET times == ParsableTimes(feed.items)
        IN  IF times # {}
            THEN \E t \in times :
                    /\ \A u \in times : u <= t
                    /\ response.json.lastUpdate = FormatDate(t)
            ELSE IF feed.items # <<>> /\ feed.items[1].pubDate.raw # ""
            THEN response.json.lastUpdate = feed.items[1].pubDate.raw
            ELSE response.json.lastUpdate = "null"

\* C13 witness: the latest date stood on the last of three items, behind a
\* first item whose pubDate does not parse
C13_Witness ==
    /\ ValidReport
    /\ Len(feed.items) = 3
    /\ feed.items[1].pubDate = Unparsable("soon")
    /\ feed.items[2].pubDate = Date(100)
    /\ feed.items[3].pubDate = Date(2000)
    /\ response.json.lastUpdate = FormatDate(2000)

\* the feeds that hold the items of f in another order
Reorderings(f) ==
    LET n == Len(f.items)
    IN  { [f EXCEPT !.items = [i \in 1..n |-> f.items[p[i]]]] :
            p \in {q \in [1..n -> 1..n] : \A i, j \in 1..n : q[i] = q[j] => i = j} }

\* C14 as stated: for every parsed feed and every permutation of its items,
\* the computed lastUpdate and the computed postFrequency are the same as
\* for the original item order.
C14_AsStated ==
    ValidReport =>
        \A g \in Reorderings(feed) :
            /\ LastUpdate(g) = response.json.lastUpdate
            /\ PostFrequency(g) = response.json.postFrequency

\* C14 (amended): for every parsed feed and every permutation of its items,
\* the computed postFrequency is the same as for the original item order,
\* and so is the computed lastUpdate when at least one item's pubDate
\* parses; when none parses, lastUpdate is the raw pubDate of whichever item
\* stands first (or null).
C14_OrderIndependence ==
    ValidReport =>
        \A g \in Reorderings(feed) :
            /\ PostFrequency(g) = response.json.postFrequency
            /\ ParsableTimes(feed.items) # {} =>
                   LastUpdate(g) = response.json.lastUpdate
            /\ ParsableTimes(feed.items) = {} =>
                   LastUpdate(g) = IF g.items # <<>> /\ g.items[1].pubDate.raw # ""
                                   THEN g.items[1].pubDate.raw ELSE "null"

\* C14 witness: three dated items that stand in neither ascending nor
\* descending order of their dates were analysed
C14_Witness ==
    /\ ValidReport
    /\ Len(feed.items) = 3
    /\ feed.items[1].pubDate = Date(1440)
    /\ feed.items[2].pubDate = Date(10080)
    /\ feed.items[3].pubDate = Date(0)
    /\ response.json.postFrequency = "2 posts per week"
    /\ response.json.lastUpdate = FormatDate(10080)

\* the label for n posts in a unit of time: singular exactly when n is 1
FrequencyLabel(n, unit) ==
    IF n = 1 THEN "1 post per " \o unit ELSE ToString(n) \o " posts per " \o unit

\* postFrequency names round(k * gaps * MinutesPerDay / span) posts per unit,
\* that is round(k / d) for the average d of span / gaps minutes
NamesRounded(k, gaps, span, unit) ==
    \E n \in 0..30 :
        /\ (2 * n - 1) * span <= 2 * k * gaps * 1440
        /\ 2 * k * gaps * 1440 < (2 * n + 1) * span
        /\ response.json.postFrequency = FrequencyLabel(n, unit)

\* C15 as stated: postFrequency is null when fewer than two items have a
\* parsable pubDate; otherwise, with d the span between the earliest and the
\* latest parsable date in days divided by (count - 1): d < 0.1 gives
\* 'Multiple posts per day', 0.1 <= d < 1 gives round(1/d) post(s) per day,
\* 1 <= d < 7 gives round(7/d) post(s) per week, 7 <= d < 30 gives
\* round(30/d) post(s) per month, d >= 30 gives 'Less than 1 post per
\* month'; the label says 'post' exactly when the rounded number is 1.
C15_AsStated ==
    ValidReport =>
        LET dated == {i \in 1..Len(feed.items) : feed.items[i].pubDate.time # NaN}
            times == ParsableTimes(feed.items)
            gaps  == Cardinality(dated) - 1
            span  == (CHOOSE t \in times : \A u \in times : u <= t)
                     - (CHOOSE t \in times : \A u \in times : t <= u)
            day   == 1440 * gaps
        IN  IF Cardinality(dated) < 2 THEN response.json.postFrequency = "null"
            ELSE IF 10 * span < day
            THEN response.json.postFrequency = "Multiple posts per day"
            ELSE IF span < day THEN NamesRounded(1, gaps, span, "day")
            ELSE IF span < 7 * day THEN NamesRounded(7, gaps, span, "week")
            ELSE IF span < 30 * day THEN NamesRounded(30, gaps, span, "month")
            ELSE response.json.postFrequency = "Less than 1 post per month"

\* the items carry parsable pubDates exactly one day apart, newest first or
\* oldest first
OnePerDay(items) ==
    /\ Len(items) >= 2
    /\ \A i \in 1..Len(items) : items[i].pubDate.time # NaN
    /\ \/ \A i \in 1..(Len(items) - 1) :
              items[i].pubDate.time - items[i + 1].pubDate.time = 1440
       \/ \A i \in 1..(Len(items) - 1) :
              items[i + 1].pubDate.time - items[i].pubDate.time = 1440

\* C16 as stated: for a feed whose items carry parsable pubDates spaced
\* exactly one day apart postFrequency is "1 post per day".
C16_AsStated ==
    (ValidReport /\ OnePerDay(feed.items)) =>
        response.json.postFrequency = "1 post per day"

\* C16 (amended): for a feed whose items carry parsable pubDates spaced
\* exactly one day apart postFrequency is "7 posts per week": the average
\* of exactly one day is not below 1, so the per-week label applies.
C16_OnePerDayIsSevenPerWeek ==
    (ValidReport /\ OnePerDay(feed.items)) =>
        response.json.postFrequency = "7 posts per week"

\* C16 witness: a feed of five items, one per day, was analysed
C16_Witness ==
    /\ ValidReport
    /\ Len(feed.items) = 5
    /\ OnePerDay(feed.items)
    /\ response.json.postFrequency = "7 posts per week"

\* the duplicate list of a report (empty when the key is left out)
ReportedDuplicates(json) ==
    IF "duplicateGuids" \in DOMAIN json THEN json.duplicateGuids ELSE <<>>

\* how many items have the identity key k: their guid, else their link
KeyCount(items, k) ==
    Cardinality({i \in 1..Len(items) :
                    (IF items[i].guid # "" THEN items[i].guid ELSE items[i].link) = k})

\* C17: the duplicate list contains exactly the identity keys that occur
\* more than once among the items, an item's key being its guid if present,
\* else its link, items with neither being skipped; a key that occurs
\* k > 1 times stands in the list exactly once, a key that occurs once never.
C17_Duplicates ==
    ValidReport =>
        LET dups == ReportedDuplicates(response.json)
        IN  /\ \A k \in {"g1", "g2", "l1", "http://x/a"} :
                   Cardinality({i \in 1..Len(dups) : dups[i] = k})
                       = IF KeyCount(feed.items, k) > 1 THEN 1 ELSE 0
            /\ \A i \in 1..Len(dups) : dups[i] # "" /\ KeyCount(feed.items, dups[i]) > 1

\* C17 witness: a key that three items share, one of them through its link,
\* was reported once, next to an item without guid and link
C17_Witness ==
    /\ ValidReport
    /\ Len(feed.items) = 3
    /\ feed.items[1].guid = "g1"
    /\ feed.items[2].guid = "" /\ feed.items[2].link = "g1"
    /\ feed.items[3].guid = "g1" /\ feed.items[3].link = "l1"
    /\ ReportedDuplicates(response.json) = <<"g1">>

\* the text holds a lexeme of the set
Holds(x, tags) == \E i \in 1..Len(x) : x[i] \in tags

\* the value of the first quoted version attribute of an <rss tag of the
\* text ("" when there is none)
VersionFound(x) ==
    LET I == {i \in 1..Len(x) : x[i] \in {"<rss version>", "<rss version=0.92>"}}
    IN  IF I = {} THEN ""
        ELSE IF x[CHOOSE i \in I : \A j \in I : i <= j] = "<rss version>" THEN "2.0"
        ELSE "0.92"

\* C18: feedType follows a strict priority on the raw text: with the RSS
\* marker present it is 'RSS <version>' for the version attribute found and
\* 'RSS 2.0' when none is found; else with the Atom marker and the Atom
\* namespace present it is 'Atom'; else with the RDF root marker present it
\* is 'RDF'; else 'Unknown'.  An RSS marker wins over Atom and RDF markers
\* of the same text.
C18_FeedType ==
    ValidReport =>
        response.json.feedType =
            IF Holds(xmlContent, {"<rss version>", "<rss version=0.92>", "<rss>",
                                  "<rss version=2.0 unquoted>"})
            THEN (IF VersionFound(xmlContent) = "" THEN "RSS 2.0"
                  ELSE "RSS " \o VersionFound(xmlContent))
            ELSE IF Holds(xmlContent, {"<feed xmlns=Atom>"}) THEN "Atom"
            ELSE IF Holds(xmlContent, {"<rdf:RDF>"}) THEN "RDF"
            ELSE "Unknown"

\* C18 witness: a text that holds an RSS 0.92 marker, an Atom marker with
\* the Atom namespace and an RDF root marker was typed as RSS 0.92
C18_Witness ==
    /\ ValidReport
    /\ Holds(xmlContent, {"<rss version=0.92>"})
    /\ Holds(xmlContent, {"<feed xmlns=Atom>"})
    /\ Holds(xmlContent, {"<rdf:RDF>"})
    /\ response.json.feedType = "RSS 0.92"

\* a text, media or enclosure field is present: it is there and is not the
\* empty string
FieldThere(v) ==
    v.kind # "undefined" /\ ~(v.kind = "string" /\ "chars" \in DOMAIN v /\ v.chars = 0)

\* the field called name is present at feed level or on the first item
FieldPresent(name, f) ==
    LET some == f.items # <<>>
        item == IF some THEN f.items[1] ELSE NoItem
    IN  CASE name = "title"           -> f.title # "" \/ item.title # ""
          [] name = "link"            -> f.link # "" \/ item.link # ""
          [] name = "description"     -> f.description # "" \/ FieldThere(item.description)
          [] name = "categories"      -> f.categories # <<>> \/ item.categories # <<>>
          [] name = "content"         -> FieldThere(item.content)
          [] name = "contentSnippet"  -> item.contentSnippet # ""
          [] name = "pubDate"         -> item.pubDate.raw # ""
          [] name = "creator"         -> item.creator # ""
          [] name = "author"          -> item.author # ""
          [] name = "guid"            -> item.guid # ""
          [] name = "content:encoded" -> FieldThere(item.contentEncoded)
          [] name = "media:content"   -> FieldThere(item.mediaContent)
          [] name = "media:thumbnail" -> FieldThere(item.mediaThumbnail)
          [] name = "enclosure"       -> FieldThere(item.enclosure)
          [] name = "image"           -> item.image

FieldNames ==
    {"author", "categories", "content", "content:encoded", "contentSnippet",
     "creator", "description", "enclosure", "guid", "image", "link",
     "media:content", "media:thumbnail", "pubDate", "title"}

\* C19: availableFields is sorted in ascending order without a repeated
\* name, and holds a field name exactly when that field is present at feed
\* level (title, link, description, non-empty categories) or on the first
\* item; a field present only on later items never appears.
C19_AvailableFields ==
    ValidReport =>
        LET fields == response.json.availableFields
        IN  /\ \A i, j \in 1..Len(fields) : i < j => Before(fields[i], fields[j])
            /\ \A i \in 1..Len(fields) : fields[i] \in FieldNames
            /\ \A name \in FieldNames :
                   (\E i \in 1..Len(fields) : fields[i] = name)
                       <=> FieldPresent(name, feed)

\* C19 witness: a feed with a link and categories of its own, whose first
\* item has only a creator and whose second item has every field, was
\* reported with exactly those three names, in ascending order
C19_Witness ==
    /\ ValidReport
    /\ feed.title = "" /\ feed.link # "" /\ feed.description = ""
    /\ feed.categories # <<>>
    /\ Len(feed.items) = 2
    /\ feed.items[1] = WithField("creator")
    /\ feed.items[2] = FullItem
    /\ response.json.availableFields = <<"categories", "creator", "link">>

\* C20 as stated: two analyses of the same raw text (two requests for the
\* same url that read the same document, had it accepted by the validator
\* and ran the analysis) produce identical reports, field for field and in
\* the same order of list elements.
C20_AsStated ==
    (/\ earlier.ran /\ earlier.validated /\ earlier.outcome = "feed"
     /\ pc = "done" /\ calls.analyse > 0
     /\ xmlContent = earlier.xmlContent)
        => response = earlier.response

----------------------------------------------------------------------------
(* Claims C21-C30.                                                         *)

\* the responses an invocation that runs alone can give to body b when the
\* text it fetched is x (<<>> if it fetched none) and the exception f strikes
\* its validator
AloneResponses(b, x, f) ==
    IF JsonError(b) # "" THEN {CatchResponse(JsonError(b))}
    ELSE IF DestructureError(b) # "" THEN {CatchResponse(DestructureError(b))}
    ELSE IF NotAString(UrlOf(b)) THEN {BadRequest("Invalid URL provided")}
    ELSE IF ~IsAbsoluteUrl(UrlOf(b)) THEN {BadRequest("Invalid URL format")}
    ELSE IF x = <<>>
    THEN {CatchResponse(message) : message \in FetchErrors \cup {TimedOutError}}
    ELSE IF ~validateFeedXML(x, f).isValid
    THEN {InvalidResponse(validateFeedXML(x, f))}
    ELSE {CatchResponse(message) : message \in ParserErrors \cup {TypeErrorMessage}}
         \cup {ValidResponse(x, fd) : fd \in {g \in PostFeeds : ~AnalysisThrows(g)}}

\* an invocation that has answered gave an answer it could have given alone
AnsweredAsAlone(own) ==
    own.pc = "done" => own.response \in AloneResponses(own.body, own.xmlContent, own.fault)

\* a step either leaves the variables of the suspended invocation alone, or
\* suspends the running invocation with its variables as they are and
\* resumes the other one with its variables as it left them
StepIsIsolated ==
    peer' # peer =>
        /\ peer.id # 0
        /\ peer'.id = 3 - peer.id
        /\ peer'.own = Locals
        /\ Locals' = peer.own

\* C21: concurrent invocations of POST share no mutable state: under every
\* interleaving of two requests each request's response is one it could get
\* if it ran alone on the document it fetched, and no step of one request
\* reads or writes a variable of the other.
C21_NoSharedState ==
    /\ [](peer.id # 0 => AnsweredAsAlone(Locals) /\ AnsweredAsAlone(peer.own))
    /\ [][StepIsIsolated]_vars

\* C21 witness: two interleaved requests for the same URL have both been
\* answered, each having fetched a different text, with different reports
C21_Witness ==
    /\ peer.id # 0
    /\ pc = "done" /\ peer.own.pc = "done"
    /\ body = peer.own.body
    /\ xmlContent # <<>> /\ peer.own.xmlContent # <<>>
    /\ xmlContent # peer.own.xmlContent
    /\ response.status = 200 /\ response.json.isValid
    /\ peer.own.response.status = 200 /\ ~peer.own.response.json.isValid
    /\ "validationErrors" \in DOMAIN peer.own.response.json

\* the fetch of the raw document is over: its text is kept, or it failed
\* otherwise than by the timer
FetchIsOver ==
    \/ pc \in {"validating", "validated", "parsing", "analysing"}
    \/ calls.validate > 0
    \/ caught.at = "fetch" /\ caught.message # TimedOutError

\* C22: the fetch of the raw document is a bounded wait.  If the timer fires
\* before fetch and response.text() have completed, validation and parsing
\* never run and the request ends with a 200 report, isValid=false, whose
\* error says that the request timed out; if the fetch completes or fails
\* first, the timer is cleared in the same step and never fires afterwards.
C22_BoundedWait ==
    /\ [](/\ timer = "fired" =>
              /\ pc = "done"
              /\ calls.validate = 0 /\ calls.parse = 0 /\ calls.analyse = 0
              /\ xmlContent = <<>>
              /\ response.status = 200
              /\ IsFailureReport(response.json)
              /\ response.json.error =
                     "Request timed out. The feed may be slow or unavailable."
          /\ FetchIsOver => timer = "cleared")
    /\ [][/\ timer' = "fired" => (timer = "armed" /\ pc \in {"fetching", "reading"})
          /\ (pc \in {"fetching", "reading"} /\ pc' \notin {"fetching", "reading"})
                 => timer' \in {"cleared", "fired"}
          /\ timer = "cleared" => timer' = "cleared"]_vars

\* C22 witness: the timer fired while the fetch was pending and the request
\* was answered with the timeout report
C22_Witness ==
    /\ timer = "fired"
    /\ pc = "done"
    /\ calls.fetch = 1
    /\ caught = [at |-> "fetch", message |-> TimedOutError]
    /\ response.json.error = "Request timed out. The feed may be slow or unavailable."

\* the text is of the RSS family: it passes the gate and holds an <rss tag
\* or a <channel> tag
IsRssText(x) ==
    /\ StartsLikeAFeed(x)
    /\ \E i \in 1..Len(x) :
          x[i] \in {"<rss version>", "<rss version=0.92>", "<rss>",
                    "<rss version=2.0 unquoted>", "<channel>"}

\* where the <item> elements of the text begin
ItemStarts(x) == {i \in 1..Len(x) : x[i] = "<item>"}

\* where the k-th <item> element, in document order, begins
NthItem(x, k) ==
    CHOOSE i \in ItemStarts(x) : Cardinality({j \in ItemStarts(x) : j < i}) = k - 1

\* the k-th item holds neither a <title> nor a <description>
ItemLacksBoth(x, k) ==
    LET from == NthItem(x, k)
        ends == {j \in from..Len(x) : x[j] = "</item>"}
        to == IF ends = {} THEN Len(x)
              ELSE CHOOSE j \in ends : \A e \in ends : j <= e
    IN  \A j \in from..to : x[j] \notin {"<title>", "<description>"}

ItemViolation(k) ==
    "RSS item #" \o ToString(k) \o " missing required <title> or <description> element"

\* C23 as stated: for every RSS-family text that passes the gate the item
\* rule is evaluated whatever the channel rules found: without an <item> the
\* at-least-one-item violation is in the list (also when <channel> is
\* missing or its content cannot be isolated); with items, each item that
\* lacks both <title> and <description> has exactly one violation with its
\* 1-based position, the others have none, and they stand in document order.
C23_AsStated ==
    (calls.validate > 0 /\ fault = "none" /\ IsRssText(xmlContent)) =>
        LET n == Cardinality(ItemStarts(xmlContent))
            errs == validation.errors
        IN  /\ n = 0 =>
                Occurrences(errs, "RSS feed should contain at least one <item> element")
                    = 1
            /\ \A k \in 1..n :
                   Occurrences(errs, ItemViolation(k))
                       = (IF ItemLacksBoth(xmlContent, k) THEN 1 ELSE 0)
            /\ \A a, b \in 1..Len(errs) : \A k, l \in 1..n :
                   (errs[a] = ItemViolation(k) /\ errs[b] = ItemViolation(l) /\ k < l)
                       => a < b

\* how many <media:content> tags of the text carry a filesize attribute
FilesizeTags(x) == Cardinality({i \in 1..Len(x) : x[i] = "<media:content filesize>"})

\* the filesize violation that reports n occurrences
FilesizeViolation(n) ==
    "Unexpected filesize attribute on media:content element (" \o ToString(n) \o
    (IF n = 1 THEN " occurrence)" ELSE " occurrences)")

\* the family branch the validator takes for a text that passes the gate
FamilyBranch(x) ==
    IF \E i \in 1..Len(x) :
          x[i] \in {"<rss version>", "<rss version=0.92>", "<rss>",
                    "<rss version=2.0 unquoted>", "<channel>"}
    THEN "rss"
    ELSE IF \E i \in 1..Len(x) : x[i] = "<feed xmlns=Atom>" THEN "atom"
    ELSE "not recognized"

\* C24: for every text that passes the gate, whichever family branch ran,
\* the violation list holds exactly one filesize violation, reporting the
\* number of <media:content> tags with a filesize attribute, if that number
\* is greater than 0, and none if it is 0; a text with such a tag is never
\* valid.
C24_FilesizeViolation ==
    (calls.validate > 0 /\ fault = "none" /\ StartsLikeAFeed(xmlContent)) =>
        LET n == FilesizeTags(xmlContent)
        IN  /\ \A k \in 1..Len(xmlContent) :
                   Occurrences(validation.errors, FilesizeViolation(k))
                       = (IF k = n THEN 1 ELSE 0)
            /\ n > 0 => ~validation.isValid
            /\ n > 0 => validation.errors[Len(validation.errors)] = FilesizeViolation(n)

\* C24 witness: a text of neither family with two such tags was given the
\* one violation that reports 2 occurrences
C24_Witness ==
    /\ calls.validate > 0
    /\ fault = "none"
    /\ StartsLikeAFeed(xmlContent)
    /\ FamilyBranch(xmlContent) = "not recognized"
    /\ FilesizeTags(xmlContent) = 2
    /\ validation.errors =
           <<"Feed does not appear to be a valid RSS 2.0 or Atom feed",
             "Unexpected filesize attribute on media:content element (2 occurrences)">>

\* how many <media:thumbnail> tags the raw text holds
ThumbnailTags(x) ==
    Cardinality({i \in 1..Len(x) :
        x[i] \in {"<media:thumbnail>", "<media:thumbnail url=t1>",
                  "<media:thumbnail url=t2>"}})

\* how many items show the signal, given item by item
ItemsWith(signals) == Cardinality({i \in DOMAIN signals : signals[i]})

ExposesThumbnail(item) == item.mediaThumbnail.kind # "undefined"

\* C25 as stated: imageSources.mediaThumbnail is never double-counted: when
\* the raw text holds n > 0 <media:thumbnail> tags the counter is n and the
\* items add nothing; when it holds none, the counter is the number of items
\* that expose the parsed media-thumbnail extension.
C25_AsStated ==
    ValidReport =>
        LET n == ThumbnailTags(xmlContent)
        IN  response.json.imageSources.mediaThumbnail =
                (IF n > 0 THEN n ELSE ItemsWith([i \in 1..Len(feed.items) |-> ExposesThumbnail(feed.items[i])]))

\* the best-available content field of an item: its full-content extension
\* if present, else its content, else its description
BestAvailable(item) ==
    IF TextPresent(item.contentEncoded) THEN item.contentEncoded
    ELSE IF TextPresent(item.content) THEN item.content
    ELSE item.description

ShowsMediaContent(item) == item.mediaContent.kind # "undefined"
ShowsImageEnclosure(item) ==
    item.enclosure.kind # "undefined" /\ item.enclosure.type \in {"image/jpeg", "image/png"}
ShowsImgTag(item) == BestAvailable(item).img
ShowsOpenGraph(item) == BestAvailable(item).og

\* C26: in every valid report each of the counters mediaContent, enclosure,
\* imgTag and openGraph is the number of parsed items that show the signal
\* (media-content extension; enclosure with an image/ type; <img in the
\* best-available content field; Open Graph image marker in that field),
\* each counted on its own; media:content with one URL on two items of a
\* text without <media:thumbnail> tags gives mediaContent = 2,
\* hasFeaturedImage = true and the URL among the sample URLs.
C26_ImageSourceCounters ==
    ValidReport =>
        LET sources == response.json.imageSources
            urls == SampleUrls(response.json)
        IN  /\ sources.mediaContent = ItemsWith([i \in 1..Len(feed.items) |-> ShowsMediaContent(feed.items[i])])
            /\ sources.enclosure = ItemsWith([i \in 1..Len(feed.items) |-> ShowsImageEnclosure(feed.items[i])])
            /\ sources.imgTag = ItemsWith([i \in 1..Len(feed.items) |-> ShowsImgTag(feed.items[i])])
            /\ sources.openGraph = ItemsWith([i \in 1..Len(feed.items) |-> ShowsOpenGraph(feed.items[i])])
            /\ (/\ Len(feed.items) = 2
                /\ \A i \in 1..2 : feed.items[i].mediaContent = MediaObject("http://x/a.jpg")
                /\ ThumbnailTags(xmlContent) = 0)
               => /\ sources.mediaContent = 2
                  /\ response.json.hasFeaturedImage
                  /\ \E i \in 1..Len(urls) : urls[i] = "http://x/a.jpg"

\* C26 witness: media:content on two items, the first of which also raises
\* the enclosure, <img and Open Graph counters
C26_Witness ==
    /\ ValidReport
    /\ Len(feed.items) = 2
    /\ ThumbnailTags(xmlContent) = 0
    /\ \A i \in 1..2 : feed.items[i].mediaContent = MediaObject("http://x/a.jpg")
    /\ ShowsImageEnclosure(feed.items[1])
    /\ ShowsImgTag(feed.items[1])
    /\ ShowsOpenGraph(feed.items[1])
    /\ response.json.imageSources =
           [mediaContent |-> 2, mediaThumbnail |-> 0, enclosure |-> 1, imgTag |-> 1,
            openGraph |-> 1]
    /\ response.json.hasFeaturedImage
    /\ SampleUrls(response.json) = <<"http://x/a.jpg", "http://x/e.jpg">>

\* C29 as stated: whenever hasFeaturedImage is true in a valid report, at
\* least one of the counters of imageSources is greater than 0.
C29_AsStated ==
    (ValidReport /\ response.json.hasFeaturedImage) =>
        LET sources == response.json.imageSources
        IN  \/ sources.mediaContent > 0
            \/ sources.mediaThumbnail > 0
            \/ sources.enclosure > 0
            \/ sources.imgTag > 0
            \/ sources.openGraph > 0

\* the keys of the report that hold lists which may be left out
ListKeys == {"duplicateGuids", "missingFields", "imageResolutions"}

\* the validator rejected the text: a structural rejection
StructuralRejection == calls.validate > 0 /\ ~validation.isValid /\ caught = NoError

\* some identity key occurs on more than one item
HasDuplicates(items) ==
    \E i \in 1..Len(items) :
        LET k == IF items[i].guid # "" THEN items[i].guid ELSE items[i].link
        IN  k # "" /\ KeyCount(items, k) > 1

\* the first item lacks its title, its link, or both description and content
FirstItemLacksFields(items) ==
    /\ Len(items) > 0
    /\ \/ items[1].title = ""
       \/ items[1].link = ""
       \/ ~TextPresent(items[1].description) /\ ~TextPresent(items[1].content)

\* C27: field presence in every status-200 response: error is present
\* exactly when isValid=false; validationErrors exactly when the failure is
\* a structural rejection by the validator; title exactly when isValid=true,
\* and it is 'Untitled Feed' when the parsed title is empty; duplicateGuids,
\* missingFields and imageResolutions are each left out exactly when they
\* would be empty.
C27_FieldPresence ==
    (pc = "done" /\ response.status = 200) =>
        LET json == response.json
        IN  /\ "error" \in DOMAIN json <=> ~json.isValid
            /\ "validationErrors" \in DOMAIN json <=> StructuralRejection
            /\ "title" \in DOMAIN json <=> json.isValid
            /\ json.isValid =>
                   json.title = (IF feed.title = "" THEN "Untitled Feed" ELSE feed.title)
            /\ \A key \in ListKeys \cap DOMAIN json : json[key] # <<>>
            /\ ~json.isValid => ListKeys \cap DOMAIN json = {}
            /\ json.isValid =>
                /\ "duplicateGuids" \in DOMAIN json <=> HasDuplicates(feed.items)
                /\ "missingFields" \in DOMAIN json <=> FirstItemLacksFields(feed.items)
                /\ "imageResolutions" \in DOMAIN json <=>
                       ThumbnailTagUrls(xmlContent) \o EncounteredUrls(feed.items) # <<>>

\* C27 witness: a valid report of a feed without a title, with missing
\* fields and neither duplicates nor images
C27_Witness ==
    /\ pc = "done"
    /\ response.status = 200
    /\ response.json.isValid
    /\ feed.title = ""
    /\ response.json.title = "Untitled Feed"
    /\ DOMAIN response.json \cap (ListKeys \cup {"error", "validationErrors"})
           = {"missingFields"}
    /\ response.json.missingFields = <<"title", "link", "description">>

RssLabels == {"RSS 2.0", "RSS 0.92"}

\* C28 as stated: the feed type label of a valid report agrees with the
\* family the validator accepted the text under: accepted by the RSS rules
\* it is labelled 'RSS <version>', accepted by the Atom rules it is labelled
\* 'Atom', and no valid report carries 'Unknown'.
C28_AsStated ==
    ValidReport =>
        /\ FamilyBranch(xmlContent) = "rss" => response.json.feedType \in RssLabels
        /\ FamilyBranch(xmlContent) = "atom" => response.json.feedType = "Atom"
        /\ response.json.feedType # "Unknown"

\* C28 (amended): the label follows the markers of the raw text.  A text
\* accepted by the Atom rules is labelled 'Atom'.  A text accepted by the
\* RSS rules is labelled 'RSS <version>' exactly when it holds an <rss tag;
\* accepted for its <channel> tag alone it is labelled 'Atom' if it holds
\* the <feed tag with the Atom namespace, else 'RDF' if it holds <rdf:RDF,
\* else 'Unknown'.
C28_LabelFollowsMarkers ==
    ValidReport =>
        LET label == response.json.feedType
            rss == Holds(xmlContent, {"<rss version>", "<rss version=0.92>", "<rss>",
                                      "<rss version=2.0 unquoted>"})
        IN  /\ FamilyBranch(xmlContent) \in {"rss", "atom"}
            /\ FamilyBranch(xmlContent) = "atom" => label = "Atom"
            /\ FamilyBranch(xmlContent) = "rss" =>
                /\ label \in RssLabels <=> rss
                /\ ~rss =>
                    label = (IF Holds(xmlContent, {"<feed xmlns=Atom>"}) THEN "Atom"
                             ELSE IF Holds(xmlContent, {"<rdf:RDF>"}) THEN "RDF"
                             ELSE "Unknown")

\* C28 witness: a text with an <rdf:RDF root and a <channel>, accepted by the
\* RSS rules, was labelled 'RDF'
C28_Witness ==
    /\ ValidReport
    /\ FamilyBranch(xmlContent) = "rss"
    /\ Holds(xmlContent, {"<rdf:RDF>"})
    /\ ~Holds(xmlContent, {"<rss version>", "<rss version=0.92>", "<rss>",
                           "<rss version=2.0 unquoted>", "<feed xmlns=Atom>"})
    /\ validateFeedXML(xmlContent, "none").isValid
    /\ response.json.feedType = "RDF"

\* handleSubmit was called in this step
Submitted == page'.submits # page.submits

\* C30: in the form state machine of the page, a submit with a blank or
\* whitespace-only url sends no request and leaves loading and result as
\* they are; any other submit sets loading=true and result=null and sends
\* the request; whenever loading is reset the result is not null, the
\* fallback invalid record being shown when the request threw and the body
\* of the response otherwise; and whatever the outcome of the request,
\* loading=true leads to loading=false with a result that is not null.
C30_FormStateMachine ==
    /\ [][/\ (Submitted /\ IsBlank(page.url)) =>
                /\ page' = [page EXCEPT !.submits = @ + 1]
                /\ UNCHANGED <<pc, body, calls, response>>
          /\ (Submitted /\ ~IsBlank(page.url)) =>
                /\ page'.loading /\ page'.result.isNull
                /\ pc' = "start" /\ body' = "{url: '" \o page.url \o "'}"
          /\ (page.loading /\ ~page'.loading) =>
                /\ ~page'.result.isNull
                /\ page'.result.value \in
                       (IF page.at = "reading" THEN {response.json, Fallback}
                        ELSE {Fallback})
          /\ (~page.loading /\ page'.loading) => Submitted]_vars
    /\ [](page.loading <=> page.at \in {"awaiting", "reading"})
    /\ (page.loading ~> (~page.loading /\ ~page.result.isNull))

\* C30 witness: the request threw after POST had answered, and the page
\* shows the fallback record with loading reset
C30_Witness ==
    /\ page.submits > 0
    /\ pc = "done"
    /\ response.status = 200
    /\ ~page.loading
    /\ page.at = "idle"
    /\ page.result = Shown(Fallback)

====
